---- MODULE Spec2Model ----
(***************************************************************************)
(* A model of the routing core of void-dex-api: the split optimizers       *)
(* (QuoteService.optimizeRouteSplit, RouteOptimizerService), the liquidity *)
(* graph and its cache, the pathfinder, the route quoting service, the     *)
(* exact-output search, the V3 path encoding, the direct V3 quote of a     *)
(* pair and the exact-input getQuote, and of two services around it: the   *)
(* sign-in nonces of AuthService and the price cache of PriceService.      *)
(* Amounts are integers in the smallest denomination; percentages are      *)
(* integers in hundredths of a percent (the code rounds every percentage   *)
(* to two decimals before using it).                                       *)
(***************************************************************************)
EXTENDS Integers, Sequences, FiniteSets, TLC

VARIABLES
    \* ---- split optimizers
    optQuotes,      \* the quotes handed to the optimizer, in input order
    optAmountIn,    \* Number(formatUnits(amountIn, fromDecimals))
    optPc,          \* "start", then the optimizer that ran: "route" | "venue"
    optValid,       \* validSplits after the percentage adjustment
    optPlan,        \* the value the optimizer returned
    \* ---- pool store, liquidity graph and pathfinder
    dbPools,        \* the pools table: the rows getAllPools returns, in insertion order
    pfPc,           \* "idle", or the search that is returning: "dfs" | "opt"
    pfQuery,        \* the arguments of the running search
    pfGraph,        \* the graph the running search got from getGraph
    pfRoutes,       \* the routes the running search returns
    \* ---- route quoting
    rqRoutes,       \* the routes handed to getQuotesForRoutes
    rqAmountIn,     \* the amountIn of the request
    rqPc,           \* "start" | "awaiting" (Promise.all) | "returned"
    rqState,        \* per route: the progress of its getQuoteForRoute call
    rqResult,       \* the quotes getQuotesForRoutes returns
    \* ---- exact-output search
    eoTarget,       \* targetOutput
    eoFn,           \* the quoting function of the venues during the request
    eoPc,           \* "sample" | "search" | "fees" | "done" | "failed" | "feeError"
    eoEstimatedInput,
    eoLow,
    eoHigh,
    eoIter,         \* the iterations of the search loop that have run
    eoBest,         \* bestQuote
    eoTrials,       \* the trials so far: midpoint, outcome and output
    eoResult,       \* the response: fromAmount and toAmount
    eoSample,       \* how the sample quote ended
    \* ---- graph cache
    gcDb,           \* the version of the pools table
    gcCache,        \* graphCache.get(chainId)
    gcNow,          \* Date.now(), in ticks
    gcEpoch,        \* the invalidations so far
    gcFirstPending, \* no getGraph has started since the last invalidation
    gcCalls,        \* per getGraph call: where it stands and the graph it holds
    \* ---- V3 path encoding
    evTokens,       \* the tokens argument of encodeV3Path
    evFees,         \* the fees argument
    evPc,           \* "idle" | "start" | "encoded" | "invalid" (the call threw)
    evEncoded,       \* the string encodeV3Path returns, as its characters
    \* ---- direct V3 single-hop quote
    dqAnswers,      \* per fee tier, what the quoter answers to quoteExactInputSingle
    dqPc,           \* "idle" | "loop" | "awaiting" (readContract) | "returned"
    dqIndex,        \* the position of the for loop in V3_FEE_TIERS
    dqIssued,       \* the fee tiers whose call has been issued, in order
    dqBestAmountOut,\* bestAmountOut
    dqBestFee,      \* bestFee
    dqResult,        \* the value getV3SingleHopQuote returns
    \* ---- exact-input getQuote
    gqAmountIn,     \* Number(formatUnits(amountIn, fromDecimals))
    gqPc,           \* "idle" | "findRoutes" | "routeQuotes" | "fallback" | "fees" | "returned" | "failed"
    gqDiscovered,   \* discoveredRoutes.length, -1 before findRoutes returned
    gqRouteQuotes,  \* routeQuotes
    gqFallback,     \* fetchAllQuotes has been called
    gqDexQuotes,    \* dexQuotes
    gqPlan,         \* the plan of the optimizer that ran and which one it was
    gqResult,       \* "none" | "response" | "NoLiquidity" | "feeError"
    \* ---- AuthService: nonces and sign-in
    auUser,         \* the row of the wallet in the users table
    auIssued,       \* the nonces generated so far
    auGet,          \* the getNonce call
    auCalls,        \* the verifySignature calls
    \* ---- PriceService: the native token price
    prCache,        \* ethPriceCache
    prNow,          \* Date.now(), in ticks
    prCalls         \* the getNativeTokenPrice calls

optVars == <<optQuotes, optAmountIn, optPc, optValid, optPlan>>
pfVars == <<dbPools, pfPc, pfQuery, pfGraph, pfRoutes>>
rqVars == <<rqRoutes, rqAmountIn, rqPc, rqState, rqResult>>

eoVars == <<eoTarget, eoFn, eoPc, eoEstimatedInput, eoLow, eoHigh, eoIter, eoBest, eoTrials,
           eoResult, eoSample>>
gcVars == <<gcDb, gcCache, gcNow, gcEpoch, gcFirstPending, gcCalls>>

evVars == <<evTokens, evFees, evPc, evEncoded>>

dqVars == <<dqAnswers, dqPc, dqIndex, dqIssued, dqBestAmountOut, dqBestFee, dqResult>>

gqVars == <<gqAmountIn, gqPc, gqDiscovered, gqRouteQuotes, gqFallback, gqDexQuotes, gqPlan, gqResult>>

auVars == <<auUser, auIssued, auGet, auCalls>>

prVars == <<prCache, prNow, prCalls>>

vars == <<optVars, pfVars, rqVars, eoVars, gcVars, evVars, dqVars, gqVars, auVars, prVars>>

\* what the operations of one component leave alone
notOpt == <<pfVars, rqVars, eoVars, gcVars, evVars, dqVars, gqVars, auVars, prVars>>
notPf == <<optVars, rqVars, eoVars, gcVars, evVars, dqVars, gqVars, auVars, prVars>>
notRq == <<optVars, pfVars, eoVars, gcVars, evVars, dqVars, gqVars, auVars, prVars>>
notEo == <<optVars, pfVars, rqVars, gcVars, evVars, dqVars, gqVars, auVars, prVars>>
notGc == <<optVars, pfVars, rqVars, eoVars, evVars, dqVars, gqVars, auVars, prVars>>
notEv == <<optVars, pfVars, rqVars, eoVars, gcVars, dqVars, gqVars, auVars, prVars>>
notDq == <<optVars, pfVars, rqVars, eoVars, gcVars, evVars, gqVars, auVars, prVars>>
notGq == <<optVars, pfVars, rqVars, eoVars, gcVars, evVars, dqVars, auVars, prVars>>
notAu == <<optVars, pfVars, rqVars, eoVars, gcVars, evVars, dqVars, gqVars, prVars>>
notPr == <<optVars, pfVars, rqVars, eoVars, gcVars, evVars, dqVars, gqVars, auVars>>

(***************************************************************************)
(* Arithmetic helpers                                                      *)
(***************************************************************************)
Min(a, b) == IF a <= b THEN a ELSE b

\* Math.round(n / d) for n >= 0, d > 0: round half up
RoundDiv(n, d) == (2 * n + d) \div (2 * d)

\* the sum of a sequence of integers
RECURSIVE SumSeq(_)
SumSeq(s) == IF s = <<>> THEN 0 ELSE Head(s) + SumSeq(Tail(s))

(***************************************************************************)
(* Bounds of the optimizer inputs                                          *)
(***************************************************************************)
MaxQuotes == 4
OutVals == {0, 2, 99, 100}
GasVals == {3, 5}
AmountVals == {99, 100}

\* the quotes of the model: a venue that costs more gas moves the price less, so that
\* the gas and the price impact of a plan tell which quote they were copied from
ImpactOfGas(gas) == IF gas = 3 THEN 20 ELSE 10
Quotes == {[out |-> o, gas |-> g, priceImpact |-> ImpactOfGas(g)] : o \in OutVals, g \in GasVals}

RECURSIVE SeqsUpTo(_, _)
SeqsUpTo(S, n) ==
    IF n = 0 THEN {<<>>}
    ELSE LET shorter == SeqsUpTo(S, n - 1)
         IN shorter \cup {Append(s, x) : s \in {t \in shorter : Len(t) = n - 1}, x \in S}

(***************************************************************************)
(* The split optimizers                                                    *)
(***************************************************************************)
MAX_ROUTE_SPLITS == 3
MIN_ROUTE_PERCENTAGE == 5
MAX_SPLITS == 3
MIN_SPLIT_PERCENTAGE == 1
SMALL_TRADE == 100
splitThresholdNum == 1001
splitThresholdDen == 1000
HUNDRED == 10000            \* 100% in hundredths of a percent

NoPlan == [kind |-> "none", isSplit |-> FALSE, legs |-> <<>>, totalOutput |-> 0, totalGas |-> 0,
           avgPriceImpact |-> 0]
NullPlan == [NoPlan EXCEPT !.kind = "null"]
ErrorPlan == [NoPlan EXCEPT !.kind = "error"]

\* [...quotes].sort((a, b) => b.amountOut > a.amountOut ? 1 : b.amountOut < a.amountOut ? -1 : 0)
\* Array.prototype.sort is stable: equal outputs keep their input order.
\* an insertion that puts a quote before the earlier quotes of equal output
RECURSIVE InsertDescLaterFirst(_, _)
InsertDescLaterFirst(sorted, q) ==
    IF sorted = <<>> THEN <<q>>
    ELSE IF Head(sorted).out > q.out THEN <<Head(sorted)>> \o InsertDescLaterFirst(Tail(sorted), q)
         ELSE <<q>> \o sorted

RECURSIVE InsertDesc(_, _)
InsertDesc(sorted, q) ==
    IF sorted = <<>> THEN <<q>>
    ELSE IF Head(sorted).out >= q.out THEN <<Head(sorted)>> \o InsertDesc(Tail(sorted), q)
         ELSE <<q>> \o sorted

RECURSIVE SortDesc(_)
SortDesc(quotes) ==
    IF quotes = <<>> THEN <<>>
    ELSE InsertDesc(SortDesc(SubSeq(quotes, 1, Len(quotes) - 1)), quotes[Len(quotes)])

\* outputs.reduce((sum, o) => sum + o, 0)
SumOut(quotes) == SumSeq([i \in 1..Len(quotes) |-> quotes[i].out])

\* validSplits.reduce((a, b) => a + b.percentage, 0)
SumPct(splits) == SumSeq([i \in 1..Len(splits) |-> splits[i].pct])

\* a filter that only drops NaN percentages and applies no minimum
RawPctAtLeastNoMinimum(q, total, minPct) == total > 0

\* percentages[i] >= minPct, where percentages[i] = (output / totalPotentialOutput) * 100;
\* with a zero total the percentage is NaN and every comparison with it is false
RawPctAtLeast(q, total, minPct) == total > 0 /\ q.out * 100 >= minPct * total

\* the quotes of topQuotes whose raw percentage reaches the minimum, in order
ValidQuotes(topQuotes, minPct) ==
    LET total == SumOut(topQuotes)
        Keep(q) == RawPctAtLeast(q, total, minPct)
    IN SelectSeq(topQuotes, Keep)

\* Math.round((s.percentage / totalPercentage) * 10000) / 100, in hundredths
NormalizedPct(q, validTotal) == RoundDiv(q.out * HUNDRED, validTotal)

\* validSplits[0].percentage += 100 - sum
AdjustFirst(splits) ==
    LET sum == SumPct(splits)
    IN IF sum # HUNDRED /\ Len(splits) > 0
       THEN [splits EXCEPT ![1].pct = @ + (HUNDRED - sum)]
       ELSE splits

\* normalise the surviving percentages to two decimals and add the residual to the first
NormalizeSplits(valid) ==
    LET validTotal == SumOut(valid)
    IN AdjustFirst([i \in 1..Len(valid) |->
                      [quote |-> valid[i], pct |-> NormalizedPct(valid[i], validTotal)]])

\* a leg credited with the whole quote, whatever its percentage
SplitAmountOutUnscaled(s) == s.quote.out

\* (quote.amountOut * BigInt(Math.round(percentage * 100))) / 10000n
SplitAmountOut(s) == (s.quote.out * s.pct) \div HUNDRED

\* Math.floor(split.quote.estimatedGas * proportion)
SplitGasFloor(s) == (s.quote.gas * s.pct) \div HUNDRED

\* the sums the optimizers accumulate over the legs of a split
TotalSplitOutput(splits) == SumSeq([i \in 1..Len(splits) |-> SplitAmountOut(splits[i])])
TotalGasFloor(splits) == SumSeq([i \in 1..Len(splits) |-> SplitGasFloor(splits[i])])
TotalGas(splits) == SumSeq([i \in 1..Len(splits) |-> splits[i].quote.gas])

\* weightedPriceImpact += quote.priceImpact * (percentage / 100), in units of 1/HUNDRED
WeightedPriceImpact(splits) ==
    SumSeq([i \in 1..Len(splits) |-> splits[i].quote.priceImpact * splits[i].pct])

\* a comparison that always prefers the split
SplitBetterAlways(splitOutput, singleOutput) == TRUE

\* the threshold applied to the wrong side of the comparison
SplitBetterWrongSide(splitOutput, singleOutput) ==
    splitOutput * splitThresholdNum > singleOutput * splitThresholdDen

\* splitOutput > singleOutput * splitThreshold
SplitBetter(splitOutput, singleOutput) ==
    splitOutput * splitThresholdDen > singleOutput * splitThresholdNum

\* the single-route result: the best quote at 100%
createSingleRoute(quote) ==
    [kind |-> "plan", isSplit |-> FALSE,
     legs |-> <<[quote |-> quote, pct |-> HUNDRED]>>,
     totalOutput |-> quote.out, totalGas |-> quote.gas,
     avgPriceImpact |-> quote.priceImpact * HUNDRED]

createSplitRoute(splits) ==
    [kind |-> "plan", isSplit |-> TRUE, legs |-> splits,
     totalOutput |-> TotalSplitOutput(splits),
     totalGas |-> TotalGas(splits),
     avgPriceImpact |-> WeightedPriceImpact(splits)]

\* a test that takes the single-route shortcut only for a lone quote
SingleRouteShortcutLoneQuote(sortedQuotes, amountInNum) == Len(sortedQuotes) = 1

\* sortedQuotes.length === 1 || amountInNum < 100
SingleRouteShortcut(sortedQuotes, amountInNum) ==
    Len(sortedQuotes) = 1 \/ amountInNum < SMALL_TRADE

\* RouteOptimizerService.calculateDynamicSplit
calculateDynamicSplit(sortedQuotes) ==
    LET topQuotes == SubSeq(sortedQuotes, 1, Min(MAX_SPLITS, Len(sortedQuotes)))
        valid == ValidQuotes(topQuotes, MIN_SPLIT_PERCENTAGE)
    IN IF Len(valid) = 1 THEN <<[quote |-> valid[1], pct |-> HUNDRED]>>
       ELSE NormalizeSplits(valid)

\* RouteOptimizerService.findOptimalRoute: <<validSplits, returned plan>>
findOptimalRoute(quotes, amountInNum) ==
    IF Len(quotes) = 0 THEN <<(<<>>), ErrorPlan>>
    ELSE LET sortedQuotes == SortDesc(quotes)
         IN IF SingleRouteShortcut(sortedQuotes, amountInNum)
            THEN <<(<<>>), createSingleRoute(sortedQuotes[1])>>
            ELSE LET dynamicSplit == calculateDynamicSplit(sortedQuotes)
                     singleRoute == createSingleRoute(sortedQuotes[1])
                     splitRoute == createSplitRoute(dynamicSplit)
                 IN IF SplitBetter(splitRoute.totalOutput, singleRoute.totalOutput)
                    THEN <<dynamicSplit, splitRoute>>
                    ELSE <<dynamicSplit, singleRoute>>

\* QuoteService.optimizeRouteSplit: <<validSplits, returned plan>>
optimizeRouteSplit(quotes, amountInNum) ==
    IF Len(quotes) = 0 THEN <<(<<>>), NullPlan>>
    ELSE LET sortedQuotes == SortDesc(quotes)
             single == createSingleRoute(sortedQuotes[1])
         IN IF SingleRouteShortcut(sortedQuotes, amountInNum)
            THEN <<(<<>>), single>>
            ELSE LET topQuotes == SubSeq(sortedQuotes, 1, Min(MAX_ROUTE_SPLITS, Len(sortedQuotes)))
                     valid == ValidQuotes(topQuotes, MIN_ROUTE_PERCENTAGE)
                 IN IF Len(valid) <= 1
                    THEN <<[i \in 1..Len(valid) |-> [quote |-> valid[i], pct |-> HUNDRED]], single>>
                    ELSE LET validSplits == NormalizeSplits(valid)
                             totalSplitOutput == TotalSplitOutput(validSplits)
                             totalSplitGas == TotalGasFloor(validSplits)
                         IN IF SplitBetter(totalSplitOutput, sortedQuotes[1].out)
                            THEN <<validSplits,
                                   [kind |-> "plan", isSplit |-> TRUE, legs |-> validSplits,
                                    totalOutput |-> totalSplitOutput, totalGas |-> totalSplitGas,
                                    avgPriceImpact |-> WeightedPriceImpact(validSplits)]>>
                            ELSE <<validSplits, single>>

OptIdle ==
    /\ optQuotes = <<>>
    /\ optAmountIn = 0
    /\ optPc = "idle"
    /\ optValid = <<>>
    /\ optPlan = NoPlan

OptInputs ==
    /\ optQuotes \in SeqsUpTo(Quotes, MaxQuotes)
    /\ optAmountIn \in AmountVals
    /\ optPc = "start"
    /\ optValid = <<>>
    /\ optPlan = NoPlan

OptimizeRouteSplit ==
    /\ optPc = "start"
    /\ LET r == optimizeRouteSplit(optQuotes, optAmountIn)
       IN /\ optValid' = r[1]
          /\ optPlan' = r[2]
    /\ optPc' = "route"
    /\ UNCHANGED <<optQuotes, optAmountIn, notOpt>>

FindOptimalRoute ==
    /\ optPc = "start"
    /\ LET r == findOptimalRoute(optQuotes, optAmountIn)
       IN /\ optValid' = r[1]
          /\ optPlan' = r[2]
    /\ optPc' = "venue"
    /\ UNCHANGED <<optQuotes, optAmountIn, notOpt>>

(***************************************************************************)
(* The pools table and the liquidity graph                                 *)
(***************************************************************************)
MaxPools == 4

\* String.prototype.toLowerCase on the addresses of the model
ToLower(t) ==
    CASE t = "A" -> "a"
      [] t = "B" -> "b"
      [] t = "C" -> "c"
      [] t = "D" -> "d"
      [] OTHER -> t

\* the pool data the discovery and seed services hand to upsertPool; a fee of 0 is
\* "no fee" (a V2 pool); liq is ln(liquidity / 1e18 + 1) and fee * 100, both in
\* units of 0.05, is what the priority search adds to a distance
PoolUniverse ==
    { [poolAddress |-> "p1", token0 |-> "a", token1 |-> "b", dexId |-> "uniswap_v3", fee |-> 3000, liq |-> 30],
      [poolAddress |-> "p2", token0 |-> "B", token1 |-> "c", dexId |-> "uniswap_v3", fee |-> 500, liq |-> 6],
      [poolAddress |-> "p3", token0 |-> "a", token1 |-> "C", dexId |-> "sushiswap", fee |-> 0, liq |-> 0],
      [poolAddress |-> "p4", token0 |-> "c", token1 |-> "d", dexId |-> "uniswap_v3", fee |-> 10000, liq |-> 30],
      [poolAddress |-> "p5", token0 |-> "b", token1 |-> "c", dexId |-> "sushiswap", fee |-> 0, liq |-> 6],
      [poolAddress |-> "p6", token0 |-> "a", token1 |-> "d", dexId |-> "uniswap_v3", fee |-> 3000, liq |-> 0],
      [poolAddress |-> "p7", token0 |-> "d", token1 |-> "e", dexId |-> "sushiswap", fee |-> 0, liq |-> 0] }

\* the token arguments of a search, in either letter case; a token is unknown to
\* the graphs that were built before a pool with it was stored
TokenInVals == {"a", "A"}
TokenOutVals == {"c", "C", "d", "a", "e"}

\* PoolService.upsertPool: the row it saves
PoolRow(data) ==
    [data EXCEPT !.token0 = ToLower(data.token0), !.token1 = ToLower(data.token1)]

EmptyGraph == [adjacencyList |-> <<>>, tokens |-> {}, poolCount |-> 0]

\* adjacencyList.get(token).push(edge), after adjacencyList.set(token, []) for a new key
PushEdge(adj, token, edge) ==
    [t \in (DOMAIN adj) \cup {token} |->
        IF t = token
        THEN (IF t \in DOMAIN adj THEN adj[t] ELSE <<>>) \o <<edge>>
        ELSE adj[t]]

\* pool.fee ? pool.fee / 1_000_000 : 0.003, in millionths
EdgeFee(pool) == IF pool.fee # 0 THEN pool.fee ELSE 3000

\* the edge token0 -> token1 of a pool, and back
Edge0to1(pool) ==
    [pool |-> pool, tokenIn |-> ToLower(pool.token0), tokenOut |-> ToLower(pool.token1),
     dexId |-> pool.dexId, fee |-> EdgeFee(pool), liquidity |-> pool.liq]

Edge1to0(pool) ==
    [pool |-> pool, tokenIn |-> ToLower(pool.token1), tokenOut |-> ToLower(pool.token0),
     dexId |-> pool.dexId, fee |-> EdgeFee(pool), liquidity |-> pool.liq]

\* a loop body that adds only the edge token0 -> token1
AddPoolEdgesForwardOnly(adj, pool) ==
    PushEdge(adj, ToLower(pool.token0), Edge0to1(pool))

\* one iteration of the loop over the pools in buildGraph
AddPoolEdges(adj, pool) ==
    PushEdge(PushEdge(adj, ToLower(pool.token0), Edge0to1(pool)),
             ToLower(pool.token1), Edge1to0(pool))

RECURSIVE BuildAdjacency(_)
BuildAdjacency(pools) ==
    IF pools = <<>> THEN <<>>
    ELSE AddPoolEdges(BuildAdjacency(SubSeq(pools, 1, Len(pools) - 1)), pools[Len(pools)])

\* LiquidityGraphService.buildGraph on the pools getAllPools returned
buildGraph(pools) ==
    [adjacencyList |-> BuildAdjacency(pools),
     tokens |-> UNION {{ToLower(pools[i].token0), ToLower(pools[i].token1)} : i \in DOMAIN pools},
     poolCount |-> Len(pools)]

\* graph.adjacencyList.get(token.toLowerCase()) || []
getEdgesFrom(graph, token) ==
    IF ToLower(token) \in DOMAIN graph.adjacencyList
    THEN graph.adjacencyList[ToLower(token)]
    ELSE <<>>

\* a lookup that takes every token for a token of the graph
hasTokenAlways(graph, token) == TRUE

\* graph.tokens.has(token.toLowerCase())
hasToken(graph, token) == ToLower(token) \in graph.tokens

(***************************************************************************)
(* PathfinderService                                                       *)
(***************************************************************************)
MAX_HOPS == 3
MAX_ROUTES == 10
GAS_v3_single == 150
GAS_v3_multi == 100
GAS_v2_single == 120
GAS_v2_multi == 80

\* hop.dexId.includes('v3')
IsV3(dexId) == dexId \in {"uniswap_v3", "pancakeswap_v3", "sushiswap_v3", "quickswap_v3"}

\* the gas createRoute charges hop i (thousands of gas units)
HopGas(hop, i) ==
    IF i = 1 THEN (IF IsV3(hop.dexId) THEN GAS_v3_single ELSE GAS_v2_single)
    ELSE (IF IsV3(hop.dexId) THEN GAS_v3_multi ELSE GAS_v2_multi)

\* PathfinderService.createRoute
createRoute(hops, path) ==
    [hops |-> hops,
     tokenIn |-> hops[1].tokenIn,
     tokenOut |-> hops[Len(hops)].tokenOut,
     path |-> path,
     totalHops |-> Len(hops),
     estimatedGas |-> SumSeq([i \in 1..Len(hops) |-> HopGas(hops[i], i)])]

\* the RouteHop made from an edge
HopOf(edge) ==
    [edge |-> edge, tokenIn |-> edge.tokenIn, tokenOut |-> edge.tokenOut,
     poolAddress |-> edge.pool.poolAddress, dexId |-> edge.dexId, fee |-> edge.fee]

\* visitedInPath.has(nextToken) && nextToken !== targetToken
SkipEdge(visitedInPath, nextToken, targetToken) ==
    nextToken \in visitedInPath /\ nextToken # targetToken

\* PathfinderService.findRoutesRecursive: the routes it pushes, in order;
\* ExploreEdges is its loop over the edges of currentToken, from edge i on
RECURSIVE findRoutesRecursive(_, _, _, _, _, _)
RECURSIVE ExploreEdges(_, _, _, _, _, _, _)
ExploreEdges(graph, edges, i, targetToken, currentHops, currentPath, visitedInPath) ==
    IF i > Len(edges) THEN <<>>
    ELSE LET edge == edges[i]
             nextToken == ToLower(edge.tokenOut)
             newHops == Append(currentHops, HopOf(edge))
             newPath == Append(currentPath, nextToken)
             rest == ExploreEdges(graph, edges, i + 1, targetToken, currentHops,
                                  currentPath, visitedInPath)
         IN IF SkipEdge(visitedInPath, nextToken, targetToken) THEN rest
            ELSE IF nextToken = targetToken THEN <<createRoute(newHops, newPath)>> \o rest
            ELSE findRoutesRecursive(graph, nextToken, targetToken, newHops, newPath,
                                     visitedInPath \cup {nextToken}) \o rest

\* a depth check that lets one hop too many through
findRoutesRecursiveOneHopMore(graph, currentToken, targetToken, currentHops, currentPath, visitedInPath) ==
    IF Len(currentHops) > MAX_HOPS THEN <<>>
    ELSE ExploreEdges(graph, getEdgesFrom(graph, currentToken), 1, targetToken,
                      currentHops, currentPath, visitedInPath)

findRoutesRecursive(graph, currentToken, targetToken, currentHops, currentPath, visitedInPath) ==
    IF Len(currentHops) >= MAX_HOPS THEN <<>>
    ELSE ExploreEdges(graph, getEdgesFrom(graph, currentToken), 1, targetToken,
                      currentHops, currentPath, visitedInPath)

\* a findRoutes that slices the routes in the order the search pushed them
SortByGasSkipped(routes) == routes

\* routes.sort((a, b) => a.estimatedGas - b.estimatedGas), a stable sort
RECURSIVE InsertByGas(_, _)
InsertByGas(sorted, r) ==
    IF sorted = <<>> THEN <<r>>
    ELSE IF Head(sorted).estimatedGas <= r.estimatedGas
         THEN <<Head(sorted)>> \o InsertByGas(Tail(sorted), r)
         ELSE <<r>> \o sorted

RECURSIVE SortByGas(_)
SortByGas(routes) ==
    IF routes = <<>> THEN <<>>
    ELSE InsertByGas(SortByGas(SubSeq(routes, 1, Len(routes) - 1)), routes[Len(routes)])

\* PathfinderService.findRoutes on the graph getGraph returned
findRoutes(graph, tokenIn, tokenOut) ==
    LET tokenInLower == ToLower(tokenIn)
        tokenOutLower == ToLower(tokenOut)
    IN IF ~hasToken(graph, tokenInLower) THEN <<>>
       ELSE IF ~hasToken(graph, tokenOutLower) THEN <<>>
       ELSE LET routes == findRoutesRecursive(graph, tokenInLower, tokenOutLower, <<>>,
                                              <<tokenInLower>>, {})
                sorted == SortByGas(routes)
            IN SubSeq(sorted, 1, Min(MAX_ROUTES, Len(sorted)))

\* queue.sort((a, b) => a.distance - b.distance), a stable sort
RECURSIVE InsertByDistance(_, _)
InsertByDistance(sorted, n) ==
    IF sorted = <<>> THEN <<n>>
    ELSE IF Head(sorted).distance <= n.distance
         THEN <<Head(sorted)>> \o InsertByDistance(Tail(sorted), n)
         ELSE <<n>> \o sorted

RECURSIVE SortByDistance(_)
SortByDistance(queue) ==
    IF queue = <<>> THEN <<>>
    ELSE InsertByDistance(SortByDistance(SubSeq(queue, 1, Len(queue) - 1)), queue[Len(queue)])

\* the final sort of findRoutesOptimized: hop count, then estimated gas
RouteBefore(a, b) ==
    IF a.totalHops # b.totalHops THEN a.totalHops < b.totalHops
    ELSE a.estimatedGas <= b.estimatedGas

RECURSIVE InsertByHopsGas(_, _)
InsertByHopsGas(sorted, r) ==
    IF sorted = <<>> THEN <<r>>
    ELSE IF RouteBefore(Head(sorted), r)
         THEN <<Head(sorted)>> \o InsertByHopsGas(Tail(sorted), r)
         ELSE <<r>> \o sorted

RECURSIVE SortByHopsGas(_)
SortByHopsGas(routes) ==
    IF routes = <<>> THEN <<>>
    ELSE InsertByHopsGas(SortByHopsGas(SubSeq(routes, 1, Len(routes) - 1)), routes[Len(routes)])

\* current.path.some((h) => h.tokenOut.toLowerCase() === nextToken)
InPath(path, nextToken) == \E i \in DOMAIN path : ToLower(path[i].tokenOut) = nextToken

\* current.distance - liquidityScore + edge.fee * 100, in units of 0.05
NewDistance(distance, edge) == distance - edge.liquidity + edge.fee \div 500

\* [tokenInLower, ...newPath.map((h) => h.tokenOut.toLowerCase())]
PathOfHops(tokenInLower, hops) ==
    <<tokenInLower>> \o [i \in 1..Len(hops) |-> ToLower(hops[i].tokenOut)]

\* the loop over the edges of the node popped from the queue, from edge i on:
\* the queue and the routes it leaves
RECURSIVE ExpandNode(_, _, _, _, _, _, _)
ExpandNode(edges, i, current, tokenInLower, tokenOutLower, queue, routes) ==
    IF i > Len(edges) THEN [queue |-> queue, routes |-> routes]
    ELSE LET edge == edges[i]
             nextToken == ToLower(edge.tokenOut)
             newPath == Append(current.path, HopOf(edge))
             newDistance == NewDistance(current.distance, edge)
         IN IF InPath(current.path, nextToken) /\ nextToken # tokenOutLower
            THEN ExpandNode(edges, i + 1, current, tokenInLower, tokenOutLower, queue, routes)
            ELSE IF nextToken = tokenOutLower
            THEN LET found == Append(routes, createRoute(newPath, PathOfHops(tokenInLower, newPath)))
                 IN IF Len(found) >= MAX_ROUTES
                    THEN [queue |-> queue, routes |-> found]
                    ELSE ExpandNode(edges, i + 1, current, tokenInLower, tokenOutLower,
                                    queue, found)
            ELSE ExpandNode(edges, i + 1, current, tokenInLower, tokenOutLower,
                            Append(queue, [token |-> nextToken, path |-> newPath,
                                           distance |-> newDistance]),
                            routes)

\* the while loop of findRoutesOptimized: the routes collected when it ends
RECURSIVE PrioritySearch(_, _, _, _, _, _)
PrioritySearch(graph, tokenInLower, tokenOutLower, queue, visited, routes) ==
    IF queue = <<>> THEN routes
    ELSE LET sorted == SortByDistance(queue)
             current == Head(sorted)
             rest == Tail(sorted)
         IN IF Len(current.path) >= MAX_HOPS
            THEN PrioritySearch(graph, tokenInLower, tokenOutLower, rest, visited, routes)
            ELSE IF current.token \in DOMAIN visited /\ visited[current.token] < current.distance
            THEN PrioritySearch(graph, tokenInLower, tokenOutLower, rest, visited, routes)
            ELSE LET seen == [t \in (DOMAIN visited) \cup {current.token} |->
                                 IF t = current.token THEN current.distance ELSE visited[t]]
                     r == ExpandNode(getEdgesFrom(graph, current.token), 1, current,
                                     tokenInLower, tokenOutLower, rest, routes)
                 IN IF Len(r.routes) >= MAX_ROUTES THEN r.routes
                    ELSE PrioritySearch(graph, tokenInLower, tokenOutLower, r.queue, seen,
                                        r.routes)

\* PathfinderService.findRoutesOptimized on the graph getGraph returned
findRoutesOptimized(graph, tokenIn, tokenOut) ==
    LET tokenInLower == ToLower(tokenIn)
        tokenOutLower == ToLower(tokenOut)
    IN IF ~hasToken(graph, tokenInLower) \/ ~hasToken(graph, tokenOutLower) THEN <<>>
       ELSE LET routes == PrioritySearch(graph, tokenInLower, tokenOutLower,
                                         <<[token |-> tokenInLower, path |-> <<>>,
                                            distance |-> 0]>>,
                                         <<>>, <<>>)
                sorted == SortByHopsGas(routes)
            IN SubSeq(sorted, 1, Min(MAX_ROUTES, Len(sorted)))

NoQuery == [tokenIn |-> "", tokenOut |-> ""]

PfIdle ==
    /\ dbPools = <<>>
    /\ pfPc = "idle"
    /\ pfQuery = NoQuery
    /\ pfGraph = EmptyGraph
    /\ pfRoutes = <<>>

\* PoolService.upsertPool: a new pool address adds a row, a known one updates its row
UpsertPool(data) ==
    /\ pfPc = "idle"
    /\ LET row == PoolRow(data)
           known == {i \in DOMAIN dbPools : dbPools[i].poolAddress = row.poolAddress}
       IN IF known # {}
          THEN dbPools' = [i \in DOMAIN dbPools |-> IF i \in known THEN row ELSE dbPools[i]]
          ELSE /\ Len(dbPools) < MaxPools
               /\ dbPools' = Append(dbPools, row)
    /\ UNCHANGED <<pfPc, pfQuery, pfGraph, pfRoutes, notPf>>

\* findRoutes from the graph it gets to its return
FindRoutes(tokenIn, tokenOut) ==
    /\ pfPc = "idle"
    /\ pfPc' = "dfs"
    /\ pfQuery' = [tokenIn |-> tokenIn, tokenOut |-> tokenOut]
    /\ pfGraph' = buildGraph(dbPools)
    /\ pfRoutes' = findRoutes(pfGraph', tokenIn, tokenOut)
    /\ UNCHANGED <<dbPools, notPf>>

\* findRoutesOptimized from the graph it gets to its return
FindRoutesOptimized(tokenIn, tokenOut) ==
    /\ pfPc = "idle"
    /\ pfPc' = "opt"
    /\ pfQuery' = [tokenIn |-> tokenIn, tokenOut |-> tokenOut]
    /\ pfGraph' = buildGraph(dbPools)
    /\ pfRoutes' = findRoutesOptimized(pfGraph', tokenIn, tokenOut)
    /\ UNCHANGED <<dbPools, notPf>>

\* the caller has taken the routes; the search's locals are gone
PfReturn ==
    /\ pfPc \in {"dfs", "opt"}
    /\ pfPc' = "idle"
    /\ pfQuery' = NoQuery
    /\ pfGraph' = EmptyGraph
    /\ pfRoutes' = <<>>
    /\ UNCHANGED <<dbPools, notPf>>

(***************************************************************************)
(* RouteQuoteService: quoting the discovered routes                        *)
(***************************************************************************)
MaxQRoutes == 2

\* the routes handed to getQuotesForRoutes: the venue of each hop, in path order
RouteUniverse ==
    { <<"uniswap_v3">>,
      <<"sushiswap", "uniswap_v3">>,
      <<"uniswap_v3", "curve">>,
      <<"unknown_dex", "sushiswap">>,
      <<"uniswap_v3", "sushiswap", "uniswap_v3">> }

\* the amount the request asks to swap, and the amounts a venue may answer
RequestAmounts == {10}
VenueAmounts == {7, 9}

\* DEX_INFO[hop.dexId]?.type
DexType(dexId) ==
    CASE dexId \in {"uniswap_v3", "pancakeswap_v3", "sushiswap_v3", "quickswap_v3"} -> "amm_v3"
      [] dexId \in {"uniswap_v2", "sushiswap", "pancakeswap_v2", "quickswap", "camelot",
                    "traderjoe", "biswap", "apeswap", "spookyswap", "pangolin"} -> "amm_v2"
      [] dexId = "curve" -> "curve"
      [] dexId = "balancer" -> "balancer"
      [] OTHER -> "none"

\* whether getHopQuote sends a contract read for the hop at all
IssuesCall(dexId) == DexType(dexId) \in {"amm_v3", "amm_v2"}

NoHopQuote == [ok |-> FALSE, amountIn |-> 0, amountOut |-> 0]

\* getV3HopQuote / getV2HopQuote: the HopQuoteData of an answered read, null when
\* the read threw (a revert, a transport error)
HopQuoteOf(amountIn, answer) ==
    IF answer.threw THEN NoHopQuote
    ELSE [ok |-> TRUE, amountIn |-> amountIn, amountOut |-> answer.amountOut]

NoRoute == [pc |-> "idle", hop |-> 0, currentAmount |-> 0, hopsData |-> <<>>,
            quote |-> NoHopQuote, log |-> <<>>]

\* getQuoteForRoute up to its first await: hop 1 is asked with the request's amountIn
StartRoute(amountIn) ==
    [pc |-> "waiting", hop |-> 1, currentAmount |-> amountIn, hopsData |-> <<>>,
     quote |-> NoHopQuote, log |-> <<[ev |-> "call", hop |-> 1, amount |-> amountIn]>>]

\* a loop that asks every hop with the amount of the request
NextAmountInUnchained(hopQuote, amountIn) == amountIn

\* currentAmount after a hop that answered
NextAmountIn(hopQuote, amountIn) == hopQuote.amountOut

\* the entry the log of a route gets for the answer of its hop
Answered(st, hopQuote) ==
    Append(st.log, [ev |-> IF hopQuote.ok THEN "ret" ELSE "fail",
                    hop |-> st.hop, amount |-> hopQuote.amountOut])

\* a loop that leaves at a failed hop and still builds the quote from the hops so far
RouteAfterHopBreak(st, nHops, hopQuote, amountIn) ==
    LET current == IF hopQuote.ok THEN NextAmountIn(hopQuote, amountIn) ELSE st.currentAmount
        data == IF hopQuote.ok THEN Append(st.hopsData, hopQuote) ELSE st.hopsData
    IN IF ~hopQuote.ok \/ st.hop = nHops
       THEN [st EXCEPT !.pc = "done", !.log = Answered(st, hopQuote),
                       !.currentAmount = current, !.hopsData = data,
                       !.quote = [ok |-> TRUE, amountIn |-> amountIn, amountOut |-> current]]
       ELSE [st EXCEPT !.hop = @ + 1, !.currentAmount = current, !.hopsData = data,
                       !.log = Append(Answered(st, hopQuote),
                                      [ev |-> "call", hop |-> st.hop + 1, amount |-> current])]

\* a loop that skips a failed hop and goes on with the next one
RouteAfterHopSkip(st, nHops, hopQuote, amountIn) ==
    LET current == IF hopQuote.ok THEN NextAmountIn(hopQuote, amountIn) ELSE st.currentAmount
        data == IF hopQuote.ok THEN Append(st.hopsData, hopQuote) ELSE st.hopsData
    IN IF st.hop = nHops
       THEN [st EXCEPT !.pc = "done", !.log = Answered(st, hopQuote),
                       !.currentAmount = current, !.hopsData = data,
                       !.quote = IF data = <<>> THEN NoHopQuote
                                 ELSE [ok |-> TRUE, amountIn |-> amountIn,
                                       amountOut |-> current]]
       ELSE [st EXCEPT !.hop = @ + 1, !.currentAmount = current, !.hopsData = data,
                       !.log = Append(Answered(st, hopQuote),
                                      [ev |-> "call", hop |-> st.hop + 1, amount |-> current])]

\* getQuoteForRoute from the answer of hop st.hop to its next await or its return
RouteAfterHop(st, nHops, hopQuote, amountIn) ==
    LET current == NextAmountIn(hopQuote, amountIn)
    IN IF ~hopQuote.ok
       THEN [st EXCEPT !.pc = "done", !.log = Answered(st, hopQuote), !.quote = NoHopQuote]
       ELSE IF st.hop = nHops
       THEN [st EXCEPT !.pc = "done", !.log = Answered(st, hopQuote),
                       !.currentAmount = current,
                       !.hopsData = Append(@, hopQuote),
                       !.quote = [ok |-> TRUE, amountIn |-> amountIn, amountOut |-> current]]
       ELSE [st EXCEPT !.hop = @ + 1,
                       !.currentAmount = current,
                       !.hopsData = Append(@, hopQuote),
                       !.log = Append(Answered(st, hopQuote),
                                      [ev |-> "call", hop |-> st.hop + 1, amount |-> current])]

\* results.filter((q) => q !== null), each with the index of its route
ValidQuotesOf(states) ==
    SelectSeq([i \in 1..Len(states) |-> [route |-> i, amountOut |-> states[i].quote.amountOut,
                                         ok |-> states[i].quote.ok]],
              LAMBDA q : q.ok)

\* the orders .sort((a, b) => (b.amountOut > a.amountOut ? 1 : -1)) may leave the
\* valid quotes in: best output first, equal outputs in an order the engine picks
SortedOrders(valid) ==
    {s \in [1..Len(valid) -> {valid[i] : i \in DOMAIN valid}] :
        /\ \A i \in DOMAIN valid : \E j \in DOMAIN valid : s[j] = valid[i]
        /\ \A i, j \in DOMAIN valid : i < j => s[i].amountOut >= s[j].amountOut}

RqIdle ==
    /\ rqRoutes = <<>>
    /\ rqAmountIn = 0
    /\ rqPc = "idle"
    /\ rqState = <<>>
    /\ rqResult = <<>>

RqInputs ==
    /\ rqRoutes \in SeqsUpTo(RouteUniverse, MaxQRoutes)
    /\ rqAmountIn \in RequestAmounts
    /\ rqPc = "start"
    /\ rqState = [i \in 1..Len(rqRoutes) |-> NoRoute]
    /\ rqResult = <<>>

\* routes.map((route) => this.getQuoteForRoute(...)): every route's first hop is asked
GetQuotesForRoutes ==
    /\ rqPc = "start"
    /\ rqPc' = "awaiting"
    /\ rqState' = [i \in 1..Len(rqRoutes) |-> StartRoute(rqAmountIn)]
    /\ UNCHANGED <<rqRoutes, rqAmountIn, rqResult, notRq>>

\* the hop a route is waiting for is answered: by the venue, by a revert or an
\* error of the read, or by getHopQuote itself for a venue it does not know
HopAnswered(r, answer) ==
    /\ rqPc = "awaiting"
    /\ rqState[r].pc = "waiting"
    /\ LET st == rqState[r]
           dexId == rqRoutes[r][st.hop]
           hopQuote == IF IssuesCall(dexId) THEN HopQuoteOf(st.currentAmount, answer)
                       ELSE NoHopQuote
       IN /\ IssuesCall(dexId) \/ answer.threw
          /\ rqState' = [rqState EXCEPT ![r] = RouteAfterHop(st, Len(rqRoutes[r]), hopQuote,
                                                             rqAmountIn)]
    /\ UNCHANGED <<rqRoutes, rqAmountIn, rqPc, rqResult, notRq>>

\* await Promise.all(quotePromises), the filter and the sort
CollectQuotes ==
    /\ rqPc = "awaiting"
    /\ \A r \in DOMAIN rqState : rqState[r].pc = "done"
    /\ rqResult' \in SortedOrders(ValidQuotesOf(rqState))
    /\ rqPc' = "returned"
    /\ UNCHANGED <<rqRoutes, rqAmountIn, rqState, notRq>>

Answers == {[threw |-> TRUE, amountOut |-> 0]} \cup {[threw |-> FALSE, amountOut |-> a] : a \in VenueAmounts}

(***************************************************************************)
(* QuoteService.getExactOutputQuote: the search for an exact output        *)
(*                                                                         *)
(* Amounts are whole multiples of 1e-7 of a token, so that 0.01 is 100000  *)
(* and toFixed(6) rounds to a multiple of 10.  The targets are multiples   *)
(* of 64 for which every estimate is one too: each midpoint of the five    *)
(* halvings is then a whole number, as exact as the doubles of the code.   *)
(***************************************************************************)
Targets == {8448, 256000}
QuoteFns == {"par", "double", "fourFifths", "kinkedLow", "kinkedHigh", "dust"}
QuoteOutcomes == {"plan", "empty", "error"}

MAX_ITERATIONS == 5
TOLERANCE_DEN == 1000

\* parseUnits('0.01', fromDecimals)
SampleAmount == 100000

Abs(x) == IF x < 0 THEN -x ELSE x

\* the output the venues quote for an input: the best venue's amountOut, which
\* fetchAllQuotes and findOptimalRoute hand back as route.totalOutput.  Each one
\* is monotonic non-decreasing in the input; "dust" is a venue whose getAmountsOut
\* answers 0 for the sample amount.
QuoteOutput(fn, x) ==
    CASE fn = "par" -> x
      [] fn = "double" -> 2 * x
      [] fn = "fourFifths" -> (4 * x) \div 5
      [] fn = "kinkedLow" -> IF x <= 194560 THEN x ELSE 194560 + (x - 194560) \div 2
      [] fn = "kinkedHigh" -> IF x <= 240000 THEN x ELSE 240000 + (x - 240000) \div 2
      [] fn = "dust" -> IF x <= SampleAmount THEN 0 ELSE x - SampleAmount

\* sampleOut / sampleIn, in thousandths
SampleRate(fn) == QuoteOutput(fn, SampleAmount) \div (SampleAmount \div 1000)

\* an estimate that ignores the sample
EstimatedInputTargetAlways(target, fn, sample) == target

\* the estimate of the input: targetOutput / sampleRate when the sample gave a
\* quote with a positive rate, targetOutput otherwise
EstimatedInput(target, fn, sample) ==
    IF sample = "plan" /\ SampleRate(fn) > 0
    THEN (target * 1000) \div SampleRate(fn)
    ELSE target

\* Number.prototype.toFixed(6) of an amount
ToFixed6(x) == RoundDiv(x, 10) * 10

NoBest == [has |-> FALSE, input |-> 0, output |-> 0]

\* a search that keeps the plan of its latest trial
CloserToTargetAlways(output, best, target) == TRUE

\* a search that lets a later trial replace an equally close earlier one
CloserToTargetOrEqual(output, best, target) ==
    ~best.has \/ Abs(output - target) <= Abs(best.output - target)

\* !bestQuote || Math.abs(output - targetOutput) < Math.abs(bestQuote.output - targetOutput)
CloserToTarget(output, best, target) ==
    ~best.has \/ Abs(output - target) < Abs(best.output - target)

\* Math.abs(output - targetOutput) / targetOutput < 0.001
WithinTolerance(output, target) == Abs(output - target) * TOLERANCE_DEN < target

\* a search whose empty trials move the bracket as its failed trials do
BracketAfterEmptyAsError(low, high, mid, estimatedInput, outcome, output, target) ==
    IF outcome = "plan"
    THEN IF output < target THEN <<mid, high>> ELSE <<low, mid>>
    ELSE IF mid < estimatedInput THEN <<mid, high>> ELSE <<low, mid>>

\* low and high after the trial at mid
BracketAfter(low, high, mid, estimatedInput, outcome, output, target) ==
    CASE outcome = "plan" -> IF output < target THEN <<mid, high>> ELSE <<low, mid>>
      [] outcome = "error" -> IF mid < estimatedInput THEN <<mid, high>> ELSE <<low, mid>>
      [] OTHER -> <<low, high>>

EoIdle ==
    /\ eoTarget = 0
    /\ eoFn = "par"
    /\ eoPc = "idle"
    /\ eoEstimatedInput = 0
    /\ eoLow = 0
    /\ eoHigh = 0
    /\ eoIter = 0
    /\ eoBest = NoBest
    /\ eoTrials = <<>>
    /\ eoResult = NoBest
    /\ eoSample = "none"

EoInputs ==
    /\ eoTarget \in Targets
    /\ eoFn \in QuoteFns
    /\ eoPc = "sample"
    /\ eoEstimatedInput = 0
    /\ eoLow = 0
    /\ eoHigh = 0
    /\ eoIter = 0
    /\ eoBest = NoBest
    /\ eoTrials = <<>>
    /\ eoResult = NoBest
    /\ eoSample = "none"

\* the sample quote of 0.01 and the bracket it gives
SampleQuote(sample) ==
    /\ eoPc = "sample"
    /\ eoPc' = "search"
    /\ eoEstimatedInput' = EstimatedInput(eoTarget, eoFn, sample)
    /\ eoLow' = eoEstimatedInput' \div 2
    /\ eoHigh' = eoEstimatedInput' * 2
    /\ eoSample' = sample
    /\ UNCHANGED <<eoTarget, eoFn, eoIter, eoBest, eoTrials, eoResult, notEo>>

\* one iteration of the search: the trial at the midpoint, and when it is the last
\* one the throw of NotFoundException or the way on to the fees
\* a trial that is compared with bestQuote unless the venues threw
ReachesBestQuoteUnlessThrown(outcome) == outcome # "error"

\* the trials that get as far as the comparison with bestQuote: an empty list of
\* quotes continues the loop, a throw jumps to the catch block
ReachesBestQuote(outcome) == outcome = "plan"

Trial(outcome) ==
    /\ eoPc = "search"
    /\ eoIter < MAX_ITERATIONS
    /\ LET mid == (eoLow + eoHigh) \div 2
           output == QuoteOutput(eoFn, mid)
           best == IF ReachesBestQuote(outcome) /\ CloserToTarget(output, eoBest, eoTarget)
                   THEN [has |-> TRUE, input |-> mid, output |-> output]
                   ELSE eoBest
           bracket == BracketAfter(eoLow, eoHigh, mid, eoEstimatedInput, outcome, output,
                                   eoTarget)
           leaves == \/ eoIter + 1 = MAX_ITERATIONS
                     \/ outcome = "plan" /\ WithinTolerance(output, eoTarget)
       IN /\ eoBest' = best
          /\ eoLow' = bracket[1]
          /\ eoHigh' = bracket[2]
          /\ eoTrials' = Append(eoTrials, [mid |-> mid, outcome |-> outcome,
                                           output |-> IF outcome = "plan" THEN output ELSE 0,
                                           low |-> eoLow, high |-> eoHigh])
          /\ eoPc' = IF ~leaves THEN "search" ELSE IF best.has THEN "fees" ELSE "failed"
    /\ eoIter' = eoIter + 1
    /\ UNCHANGED <<eoTarget, eoFn, eoEstimatedInput, eoResult, eoSample, notEo>>

\* the fees are calculated and the response is built from bestQuote
ReturnExactOutput ==
    /\ eoPc = "fees"
    /\ eoPc' = "done"
    /\ eoResult' = [has |-> TRUE, input |-> ToFixed6(eoBest.input), output |-> eoTarget]
    /\ UNCHANGED <<eoTarget, eoFn, eoEstimatedInput, eoLow, eoHigh, eoIter, eoBest, eoTrials,
                   eoSample, notEo>>

\* calculateFees rethrows a failed read of the gas price: the request fails with
\* that error although the search had found a plan
CalculateFeesThrows ==
    /\ eoPc = "fees"
    /\ eoPc' = "feeError"
    /\ UNCHANGED <<eoTarget, eoFn, eoEstimatedInput, eoLow, eoHigh, eoIter, eoBest, eoTrials,
                   eoResult, eoSample, notEo>>

(***************************************************************************)
(* LiquidityGraphService: the graph cache under concurrent callers         *)
(***************************************************************************)
MaxCalls == 2
MaxInvalidations == 1
MaxDbVersion == 1
MaxNow == 2

CACHE_TTL == 60000
\* the milliseconds between two readings of the clock
TickMs == 30 * 1000

CallIds == 1..MaxCalls

\* a graph, told by the pool snapshot it was built from: the version of the pools
\* table that getAllPools read, and the number of invalidations before that read
NoGraph == [snap |-> -1, readEpoch |-> -1]
NoEntry == [has |-> FALSE, graph |-> NoGraph, timestamp |-> 0]
\* a call: its position, the invalidations before its getGraph started, whether it
\* is the first getGraph after an invalidation, the graph it got and, for a
\* findRoutes call, the version of the pools table when its discovery completed
NoCall == [pc |-> "idle", startEpoch |-> 0, first |-> FALSE, graph |-> NoGraph,
           discovered |-> -1]

\* cached && Date.now() - cached.timestamp < this.CACHE_TTL
CacheHit(cached, now) == cached.has /\ (now - cached.timestamp) * TickMs < CACHE_TTL

GcIdle ==
    /\ gcDb = 0
    /\ gcCache = NoEntry
    /\ gcNow = 0
    /\ gcEpoch = 0
    /\ gcFirstPending = FALSE
    /\ gcCalls = [c \in CallIds |-> NoCall]

\* PoolService.upsertPool stores a newly discovered pool
DiscoverPool ==
    /\ gcDb < MaxDbVersion
    /\ gcDb' = gcDb + 1
    /\ UNCHANGED <<gcCache, gcNow, gcEpoch, gcFirstPending, gcCalls, notGc>>

\* time passes
Tick ==
    /\ gcNow < MaxNow
    /\ gcNow' = gcNow + 1
    /\ UNCHANGED <<gcDb, gcCache, gcEpoch, gcFirstPending, gcCalls, notGc>>

\* an invalidateCache that leaves the entry where it is
CacheAfterInvalidateKept(cached) == cached

\* this.graphCache.delete(chainId)
CacheAfterInvalidate(cached) == NoEntry

\* invalidateCache(chainId)
InvalidateCache ==
    /\ gcEpoch < MaxInvalidations
    /\ gcEpoch' = gcEpoch + 1
    /\ gcCache' = CacheAfterInvalidate(gcCache)
    /\ gcFirstPending' = TRUE
    /\ UNCHANGED <<gcDb, gcNow, gcCalls, notGc>>

\* the calls are numbered in the order in which they arrive
NextToArrive(c) == \A d \in CallIds : d < c => gcCalls[d].pc # "idle"

\* getGraph up to its await: a fresh cache entry is returned, otherwise buildGraph
\* is entered and its query of the pools is on its way
GetGraphStart(c) ==
    /\ gcCalls[c].pc = "idle"
    /\ NextToArrive(c)
    /\ gcCalls' = [gcCalls EXCEPT ![c] =
          IF CacheHit(gcCache, gcNow)
          THEN [pc |-> "done", startEpoch |-> gcEpoch, first |-> gcFirstPending,
                graph |-> gcCache.graph, discovered |-> -1]
          ELSE [pc |-> "reading", startEpoch |-> gcEpoch, first |-> gcFirstPending,
                graph |-> NoGraph, discovered |-> -1]]
    /\ gcFirstPending' = FALSE
    /\ UNCHANGED <<gcDb, gcCache, gcNow, gcEpoch, notGc>>

\* findRoutes, step 1: discoverRelevantPools has completed; the pools it found are
\* in the table
FindRoutesDiscovered(c) ==
    /\ gcCalls[c].pc = "idle"
    /\ NextToArrive(c)
    /\ gcCalls' = [gcCalls EXCEPT ![c].pc = "discovered", ![c].discovered = gcDb]
    /\ UNCHANGED <<gcDb, gcCache, gcNow, gcEpoch, gcFirstPending, notGc>>

\* findRoutes, steps 2 and 3: invalidateCache and, with no await between them, the
\* start of getGraph up to its await
FindRoutesGetGraph(c) ==
    /\ gcCalls[c].pc = "discovered"
    /\ gcEpoch < MaxInvalidations
    /\ gcEpoch' = gcEpoch + 1
    /\ LET cached == CacheAfterInvalidate(gcCache)
       IN /\ gcCache' = cached
          /\ gcCalls' = [gcCalls EXCEPT ![c] =
                IF CacheHit(cached, gcNow)
                THEN [@ EXCEPT !.pc = "done", !.startEpoch = gcEpoch', !.first = TRUE,
                               !.graph = cached.graph]
                ELSE [@ EXCEPT !.pc = "reading", !.startEpoch = gcEpoch', !.first = TRUE]]
    /\ gcFirstPending' = FALSE
    /\ UNCHANGED <<gcDb, gcNow, notGc>>

\* getAllPools reads the pools table for the call
GetAllPools(c) ==
    /\ gcCalls[c].pc = "reading"
    /\ gcCalls' = [gcCalls EXCEPT ![c].pc = "building",
                                  ![c].graph = [snap |-> gcDb, readEpoch |-> gcEpoch]]
    /\ UNCHANGED <<gcDb, gcCache, gcNow, gcEpoch, gcFirstPending, notGc>>

\* buildGraph returns; getGraph stores the graph with the time of now and returns it
GetGraphFinish(c) ==
    /\ gcCalls[c].pc = "building"
    /\ gcCache' = [has |-> TRUE, graph |-> gcCalls[c].graph, timestamp |-> gcNow]
    /\ gcCalls' = [gcCalls EXCEPT ![c].pc = "done"]
    /\ UNCHANGED <<gcDb, gcNow, gcEpoch, gcFirstPending, notGc>>

(***************************************************************************)
(* DexQuoteService.encodeV3Path                                            *)
(* A string is the sequence of its characters.                             *)
(***************************************************************************)
MaxPathTokens == 3
MaxPathFees == 2

\* token addresses as the callers pass them: "0x" and 40 hex digits in checksum case
WETH ==
    <<"0", "x", "C", "0", "2", "a", "a", "A", "3", "9", "b", "2", "2", "3",
       "F", "E", "8", "D", "0", "A", "0", "e", "5", "C", "4", "F", "2", "7",
       "e", "A", "D", "9", "0", "8", "3", "C", "7", "5", "6", "C", "c", "2">>
USDC ==
    <<"0", "x", "A", "0", "b", "8", "6", "9", "9", "1", "c", "6", "2", "1",
       "8", "b", "3", "6", "c", "1", "d", "1", "9", "D", "4", "a", "2", "e",
       "9", "E", "b", "0", "c", "E", "3", "6", "0", "6", "e", "B", "4", "8">>
DAI ==
    <<"0", "x", "6", "B", "1", "7", "5", "4", "7", "4", "E", "8", "9", "0",
       "9", "4", "C", "4", "4", "D", "a", "9", "8", "b", "9", "5", "4", "E",
       "e", "d", "e", "A", "C", "4", "9", "5", "2", "7", "1", "d", "0", "F">>
TokenAddresses == {WETH, USDC, DAI}

\* fee values: the tiers of V3_FEE_TIERS, the least and the greatest 24-bit value,
\* and the first value that does not fit 24 bits
UINT24_LIMIT == 16777216
PathFeeVals == {0, 500, 3000, 10000, UINT24_LIMIT - 1, UINT24_LIMIT}

HexDigits == <<"0", "1", "2", "3", "4", "5", "6", "7", "8", "9", "a", "b", "c", "d", "e", "f">>

\* String.prototype.toLowerCase, one character
ToLowerChar(c) ==
    CASE c = "A" -> "a"
      [] c = "B" -> "b"
      [] c = "C" -> "c"
      [] c = "D" -> "d"
      [] c = "E" -> "e"
      [] c = "F" -> "f"
      [] c = "X" -> "x"
      [] OTHER -> c

\* String.prototype.toLowerCase
ToLowerCase(str) == [i \in 1..Len(str) |-> ToLowerChar(str[i])]

\* Number.prototype.toString(16) of a non-negative integer
RECURSIVE ToString16(_)
ToString16(n) ==
    IF n < 16 THEN <<HexDigits[n + 1]>>
    ELSE ToString16(n \div 16) \o <<HexDigits[(n % 16) + 1]>>

\* String.prototype.padStart(targetLength, "0")
RECURSIVE PadStart(_, _)
PadStart(str, targetLength) ==
    IF Len(str) >= targetLength THEN str ELSE PadStart(<<"0">> \o str, targetLength)

\* String.prototype.slice(start)
Slice(str, start) == SubSeq(str, start + 1, Len(str))

\* a fee rendered without padding
FeeHexUnpadded(fee) == ToString16(fee)

\* fees[i].toString(16).padStart(6, '0')
FeeHex(fee) == PadStart(ToString16(fee), 6)

\* the body of the for loop, for the fees from index i on
RECURSIVE AppendHops(_, _, _, _)
AppendHops(encoded, tokens, fees, i) ==
    IF i > Len(fees) THEN encoded
    ELSE AppendHops(encoded \o FeeHex(fees[i]) \o Slice(ToLowerCase(tokens[i + 1]), 2),
                    tokens, fees, i + 1)

\* encodeV3Path: <<outcome, encoded>>; the throw of the length check is "invalid"
encodeV3Path(tokens, fees) ==
    IF Len(tokens) # Len(fees) + 1 THEN <<"invalid", <<>> >>
    ELSE <<"encoded", AppendHops(ToLowerCase(tokens[1]), tokens, fees, 1)>>

EvIdle ==
    /\ evTokens = <<>>
    /\ evFees = <<>>
    /\ evPc = "idle"
    /\ evEncoded = <<>>

EvInputs ==
    /\ evTokens \in SeqsUpTo(TokenAddresses, MaxPathTokens)
    /\ evFees \in SeqsUpTo(PathFeeVals, MaxPathFees)
    /\ evPc = "start"
    /\ evEncoded = <<>>

EncodeV3Path ==
    /\ evPc = "start"
    /\ LET r == encodeV3Path(evTokens, evFees)
       IN /\ evPc' = r[1]
          /\ evEncoded' = r[2]
    /\ UNCHANGED <<evTokens, evFees, notEv>>

(***************************************************************************)
(* DexQuoteService.getV3SingleHopQuote: the direct quote of a pair on a    *)
(* concentrated-liquidity venue                                            *)
(***************************************************************************)
V3_FEE_TIERS == <<500, 3000, 10000>>

\* what the quoter answers for one fee tier: a revert, or an amountOut
TierOuts == {0, 7, 9}
TierAnswers == {[ok |-> FALSE, out |-> 0]} \cup {[ok |-> TRUE, out |-> o] : o \in TierOuts}

NoDexQuote == [kind |-> "null", amountOut |-> 0, feeTier |-> 0]

\* a comparison that also replaces the best tier on an equal output
BetterTierOrEqual(amountOut, bestAmountOut) == amountOut >= bestAmountOut

\* amountOut > bestAmountOut
BetterTier(amountOut, bestAmountOut) == amountOut > bestAmountOut

DqIdle ==
    /\ dqAnswers = <<>>
    /\ dqPc = "idle"
    /\ dqIndex = 0
    /\ dqIssued = <<>>
    /\ dqBestAmountOut = 0
    /\ dqBestFee = 0
    /\ dqResult = NoDexQuote

\* let bestAmountOut = 0n; let bestFee = V3_FEE_TIERS[1]
DqInputs ==
    /\ dqAnswers \in [1..Len(V3_FEE_TIERS) -> TierAnswers]
    /\ dqPc = "loop"
    /\ dqIndex = 1
    /\ dqIssued = <<>>
    /\ dqBestAmountOut = 0
    /\ dqBestFee = V3_FEE_TIERS[2]
    /\ dqResult = NoDexQuote

\* for (const fee of V3_FEE_TIERS) { ... await provider.readContract(...): the call
\* of the next tier is issued and the function suspends on it
IssueTierCall ==
    /\ dqPc = "loop"
    /\ dqIndex <= Len(V3_FEE_TIERS)
    /\ dqIssued' = Append(dqIssued, V3_FEE_TIERS[dqIndex])
    /\ dqPc' = "awaiting"
    /\ UNCHANGED <<dqAnswers, dqIndex, dqBestAmountOut, dqBestFee, dqResult, notDq>>

\* the awaited call settles: a revert is caught (continue), an amountOut replaces
\* the best one when it is greater
TierCallSettled ==
    /\ dqPc = "awaiting"
    /\ LET answer == dqAnswers[dqIndex]
           better == answer.ok /\ BetterTier(answer.out, dqBestAmountOut)
       IN /\ dqBestAmountOut' = IF better THEN answer.out ELSE dqBestAmountOut
          /\ dqBestFee' = IF better THEN V3_FEE_TIERS[dqIndex] ELSE dqBestFee
    /\ dqIndex' = dqIndex + 1
    /\ dqPc' = "loop"
    /\ UNCHANGED <<dqAnswers, dqIssued, dqResult, notDq>>

\* if (bestAmountOut === 0n) return null; return { amountOut: bestAmountOut, feeTier: bestFee, ... }
ReturnSingleHopQuote ==
    /\ dqPc = "loop"
    /\ dqIndex > Len(V3_FEE_TIERS)
    /\ dqResult' = IF dqBestAmountOut = 0 THEN NoDexQuote
                   ELSE [kind |-> "quote", amountOut |-> dqBestAmountOut, feeTier |-> dqBestFee]
    /\ dqPc' = "returned"
    /\ UNCHANGED <<dqAnswers, dqIndex, dqIssued, dqBestAmountOut, dqBestFee, notDq>>

(***************************************************************************)
(* QuoteService.getQuote, exact input                                      *)
(***************************************************************************)
MaxDiscovered == 2
MaxVenueQuotes == 2

NoGqPlan == [source |-> "none", plan |-> NoPlan]

GqIdle ==
    /\ gqAmountIn = 0
    /\ gqPc = "idle"
    /\ gqDiscovered = -1
    /\ gqRouteQuotes = <<>>
    /\ gqFallback = FALSE
    /\ gqDexQuotes = <<>>
    /\ gqPlan = NoGqPlan
    /\ gqResult = "none"

GqInputs ==
    /\ gqAmountIn \in AmountVals
    /\ gqPc = "findRoutes"
    /\ gqDiscovered = -1
    /\ gqRouteQuotes = <<>>
    /\ gqFallback = FALSE
    /\ gqDexQuotes = <<>>
    /\ gqPlan = NoGqPlan
    /\ gqResult = "none"

\* discoveredRoutes.length > 0
HasRoutes(discovered) == discovered > 0

\* a guard that sends the request to the fallback whatever the route quotes
HasRouteQuotesNever(routeQuotes) == FALSE

\* routeQuotes.length > 0
HasRouteQuotes(routeQuotes) == Len(routeQuotes) > 0

\* 1. discoveredRoutes = await pathfinderService.findRoutes(...)
GqFindRoutes(discovered) ==
    /\ gqPc = "findRoutes"
    /\ gqDiscovered' = discovered
    /\ gqPc' = IF HasRoutes(discovered) THEN "routeQuotes" ELSE "fallback"
    /\ UNCHANGED <<gqAmountIn, gqRouteQuotes, gqFallback, gqDexQuotes, gqPlan, gqResult, notGq>>

\* 2. routeQuotes = await routeQuoteService.getQuotesForRoutes(...): at most one
\* quote per discovered route; with a quote, optimizeRouteSplit gives the plan the
\* response is built from, and a null plan falls through to the fallback
GqGetQuotesForRoutes(routeQuotes) ==
    /\ gqPc = "routeQuotes"
    /\ Len(routeQuotes) <= gqDiscovered
    /\ gqRouteQuotes' = routeQuotes
    /\ LET splitResult == optimizeRouteSplit(routeQuotes, gqAmountIn)[2]
       IN IF HasRouteQuotes(routeQuotes) /\ splitResult.kind = "plan"
          THEN /\ gqPlan' = [source |-> "routes", plan |-> splitResult]
               /\ gqPc' = "fees"
          ELSE /\ gqPlan' = gqPlan
               /\ gqPc' = "fallback"
    /\ UNCHANGED <<gqAmountIn, gqDiscovered, gqFallback, gqDexQuotes, gqResult, notGq>>

\* the fallback: dexQuotes = await dexQuoteService.fetchAllQuotes(...); no quote is
\* the NotFoundException 'No liquidity found', else findOptimalRoute gives the plan
GqFetchAllQuotes(dexQuotes) ==
    /\ gqPc = "fallback"
    /\ gqFallback' = TRUE
    /\ gqDexQuotes' = dexQuotes
    /\ IF Len(dexQuotes) = 0
       THEN /\ gqResult' = "NoLiquidity"
            /\ gqPc' = "failed"
            /\ gqPlan' = gqPlan
       ELSE /\ gqPlan' = [source |-> "venues", plan |-> findOptimalRoute(dexQuotes, gqAmountIn)[2]]
            /\ gqPc' = "fees"
            /\ gqResult' = gqResult
    /\ UNCHANGED <<gqAmountIn, gqDiscovered, gqRouteQuotes, notGq>>

\* fees = await feeCalculator.calculateFees(...); return { ... }
GqReturn ==
    /\ gqPc = "fees"
    /\ gqResult' = "response"
    /\ gqPc' = "returned"
    /\ UNCHANGED <<gqAmountIn, gqDiscovered, gqRouteQuotes, gqFallback, gqDexQuotes, gqPlan, notGq>>

\* calculateFees rethrows a failed read of the gas price
GqCalculateFeesThrows ==
    /\ gqPc = "fees"
    /\ gqResult' = "feeError"
    /\ gqPc' = "failed"
    /\ UNCHANGED <<gqAmountIn, gqDiscovered, gqRouteQuotes, gqFallback, gqDexQuotes, gqPlan, notGq>>

(***************************************************************************)
(* AuthService: getNonce and verifySignature for one wallet                *)
(***************************************************************************)
MaxVerify == 2
MaxNonces == 2

VerifyIds == 1..MaxVerify

\* the row of the wallet: nonce 0 stands for null
NoUser == [exists |-> FALSE, nonce |-> 0]
NoGet == [pc |-> "idle", nonce |-> 0, found |-> FALSE]
NoVerify == [pc |-> "idle", nonce |-> 0, result |-> "none"]

\* what the caller hands to verifySignature: a message that parseSiweMessage accepts
\* or not, and a signature that verifyMessage finds valid or invalid, or throws on
MessageFormats == {"siwe", "malformed"}
SignatureChecks == {"valid", "invalid", "throws"}

AuIdle ==
    /\ auUser = NoUser
    /\ auIssued = 0
    /\ auGet = NoGet
    /\ auCalls = [v \in VerifyIds |-> NoVerify]

\* getNonce up to its first await: the nonce is generated (a fresh one) and the row
\* of the wallet is looked up
GetNonceFindOne ==
    /\ auGet.pc = "idle"
    /\ auIssued < MaxNonces
    /\ auIssued' = auIssued + 1
    /\ auGet' = [pc |-> "saving", nonce |-> auIssued + 1, found |-> auUser.exists]
    /\ UNCHANGED <<auUser, auCalls, notAu>>

\* getNonce: the row is created with the nonce, or its nonce replaced, and saved
GetNonceSave ==
    /\ auGet.pc = "saving"
    /\ auUser' = [exists |-> TRUE, nonce |-> auGet.nonce]
    /\ auGet' = NoGet
    /\ UNCHANGED <<auIssued, auCalls, notAu>>

\* !user || user.nonce !== parsedMessage.nonce
NonceMismatch(user, nonce) == ~user.exists \/ user.nonce # nonce

\* verifySignature up to the lookup of the row: the message is parsed and the
\* signature verified
VerifyMessage(v, format, nonce, check) ==
    /\ auCalls[v].pc = "idle"
    /\ auCalls' = [auCalls EXCEPT ![v] =
          CASE format = "malformed" -> [pc |-> "done", nonce |-> 0, result |-> "InvalidFormat"]
            [] check = "throws" -> [pc |-> "done", nonce |-> nonce, result |-> "VerificationFailed"]
            [] check = "invalid" -> [pc |-> "done", nonce |-> nonce, result |-> "InvalidSignature"]
            [] OTHER -> [pc |-> "finding", nonce |-> nonce, result |-> "none"]]
    /\ UNCHANGED <<auUser, auIssued, auGet, notAu>>

\* findOne answers with the row as it is now; the nonce is compared and, when it
\* matches, cleared in the entity and the save is issued
VerifyFindOne(v) ==
    /\ auCalls[v].pc = "finding"
    /\ auCalls' = [auCalls EXCEPT ![v] =
          IF NonceMismatch(auUser, auCalls[v].nonce)
          THEN [@ EXCEPT !.pc = "done", !.result = "InvalidNonce"]
          ELSE [@ EXCEPT !.pc = "saving"]]
    /\ UNCHANGED <<auUser, auIssued, auGet, notAu>>

\* the save has stored the cleared nonce; the access token is signed and returned
VerifySave(v) ==
    /\ auCalls[v].pc = "saving"
    /\ auUser' = [auUser EXCEPT !.nonce = 0]
    /\ auCalls' = [auCalls EXCEPT ![v].pc = "done", ![v].result = "token"]
    /\ UNCHANGED <<auIssued, auGet, notAu>>

(***************************************************************************)
(* PriceService: the cached native token price                             *)
(***************************************************************************)
MaxPriceCalls == 2
MaxPriceNow == 3

PRICE_CACHE_TTL == 60000

PriceCallIds == 1..MaxPriceCalls

\* Ethereum and BSC have a feed in CHAINLINK_PRICE_FEEDS, chain 10 has none
ChainIds == {1, 56, 10}
HasFeed(chainId) == chainId \in {1, 56}

\* the answer of the chain's feed at a time, in dollars: ETH/USD or BNB/USD
FeedPrice(chainId, now) == (IF chainId = 1 THEN 3000 ELSE 600) + now

NoPrice == [has |-> FALSE, price |-> 0, timestamp |-> 0]
NoPriceCall == [pc |-> "idle", chainId |-> 0, price |-> 0, at |-> 0]

\* this.ethPriceCache && Date.now() - this.ethPriceCache.timestamp < this.CACHE_TTL
PriceCacheHit(cached, now) == cached.has /\ (now - cached.timestamp) * TickMs < PRICE_CACHE_TTL

PrIdle ==
    /\ prCache = NoPrice
    /\ prNow = 0
    /\ prCalls = [p \in PriceCallIds |-> NoPriceCall]

\* time passes
PriceTick ==
    /\ prNow < MaxPriceNow
    /\ prNow' = prNow + 1
    /\ UNCHANGED <<prCache, prCalls, notPr>>

\* getNativeTokenPrice up to its await: the cached price, or 0 for a chain without
\* a feed, or the read of latestRoundData is issued
GetNativeTokenPrice(p, chainId) ==
    /\ prCalls[p].pc = "idle"
    /\ prCalls' = [prCalls EXCEPT ![p] =
          IF PriceCacheHit(prCache, prNow)
          THEN [pc |-> "done", chainId |-> chainId, price |-> prCache.price, at |-> prNow]
          ELSE IF ~HasFeed(chainId)
          THEN [pc |-> "done", chainId |-> chainId, price |-> 0, at |-> prNow]
          ELSE [pc |-> "reading", chainId |-> chainId, price |-> 0, at |-> 0]]
    /\ UNCHANGED <<prCache, prNow, notPr>>

\* the read of the feed answers: the price is cached with the time of now and returned
ReadContractAnswers(p) ==
    /\ prCalls[p].pc = "reading"
    /\ LET price == FeedPrice(prCalls[p].chainId, prNow)
       IN /\ prCache' = [has |-> TRUE, price |-> price, timestamp |-> prNow]
          /\ prCalls' = [prCalls EXCEPT ![p].pc = "done", ![p].price = price, ![p].at = prNow]
    /\ UNCHANGED <<prNow, notPr>>

\* the read of the feed fails: 0 is returned and the cache is left as it is
ReadContractFails(p) ==
    /\ prCalls[p].pc = "reading"
    /\ prCalls' = [prCalls EXCEPT ![p].pc = "done", ![p].price = 0, ![p].at = prNow]
    /\ UNCHANGED <<prCache, prNow, notPr>>

(***************************************************************************)
(* Specifications: one per component, the other components idle            *)
(***************************************************************************)
OptInit == OptInputs /\ PfIdle /\ RqIdle /\ EoIdle /\ GcIdle /\ EvIdle /\ DqIdle /\ GqIdle /\ AuIdle /\ PrIdle
OptNext == OptimizeRouteSplit \/ FindOptimalRoute
SpecOpt == OptInit /\ [][OptNext]_vars

PfInit == PfIdle /\ OptIdle /\ RqIdle /\ EoIdle /\ GcIdle /\ EvIdle /\ DqIdle /\ GqIdle /\ AuIdle /\ PrIdle
PfNext ==
    \/ \E data \in PoolUniverse : UpsertPool(data)
    \/ \E tokenIn \in TokenInVals, tokenOut \in TokenOutVals : FindRoutes(tokenIn, tokenOut)
    \/ \E tokenIn \in TokenInVals, tokenOut \in TokenOutVals : FindRoutesOptimized(tokenIn, tokenOut)
    \/ PfReturn
SpecPath == PfInit /\ [][PfNext]_vars

\* Searches over well-connected pools tables: several pools per pair, so that a
\* search enumerates more than MAX_ROUTES routes.
DensePools ==
    << [poolAddress |-> "q1", token0 |-> "a", token1 |-> "b", dexId |-> "uniswap_v3", fee |-> 3000, liq |-> 30],
       [poolAddress |-> "q2", token0 |-> "a", token1 |-> "b", dexId |-> "sushiswap", fee |-> 0, liq |-> 6],
       [poolAddress |-> "q3", token0 |-> "b", token1 |-> "c", dexId |-> "uniswap_v3", fee |-> 500, liq |-> 6],
       [poolAddress |-> "q4", token0 |-> "b", token1 |-> "c", dexId |-> "sushiswap", fee |-> 0, liq |-> 30],
       [poolAddress |-> "q5", token0 |-> "a", token1 |-> "c", dexId |-> "uniswap_v3", fee |-> 10000, liq |-> 0],
       [poolAddress |-> "q6", token0 |-> "a", token1 |-> "c", dexId |-> "sushiswap", fee |-> 0, liq |-> 6],
       [poolAddress |-> "q7", token0 |-> "a", token1 |-> "b", dexId |-> "uniswap_v3", fee |-> 500, liq |-> 0],
       [poolAddress |-> "q8", token0 |-> "b", token1 |-> "d", dexId |-> "uniswap_v3", fee |-> 3000, liq |-> 30],
       [poolAddress |-> "q9", token0 |-> "d", token1 |-> "e", dexId |-> "sushiswap", fee |-> 0, liq |-> 6] >>

\* the rows of DensePools at the positions of S, in their order
RECURSIVE RowsAt(_, _)
RowsAt(S, i) ==
    IF i > Len(DensePools) THEN <<>>
    ELSE (IF i \in S THEN <<PoolRow(DensePools[i])>> ELSE <<>>) \o RowsAt(S, i + 1)

MinDensePools == 5
DenseTables == {RowsAt(S, 1) : S \in {T \in SUBSET DOMAIN DensePools : Cardinality(T) >= MinDensePools}}

DenseInit ==
    /\ dbPools \in DenseTables
    /\ pfPc = "idle"
    /\ pfQuery = NoQuery
    /\ pfGraph = EmptyGraph
    /\ pfRoutes = <<>>
    /\ OptIdle /\ RqIdle /\ EoIdle /\ GcIdle /\ EvIdle /\ DqIdle /\ GqIdle /\ AuIdle /\ PrIdle
DenseNext ==
    \/ \E tokenIn \in TokenInVals, tokenOut \in TokenOutVals : FindRoutes(tokenIn, tokenOut)
    \/ \E tokenIn \in TokenInVals, tokenOut \in TokenOutVals : FindRoutesOptimized(tokenIn, tokenOut)
    \/ PfReturn
SpecDense == DenseInit /\ [][DenseNext]_vars

RqInit == RqInputs /\ OptIdle /\ PfIdle /\ EoIdle /\ GcIdle /\ EvIdle /\ DqIdle /\ GqIdle /\ AuIdle /\ PrIdle
RqNext ==
    \/ GetQuotesForRoutes
    \/ \E r \in DOMAIN rqState, answer \in Answers : HopAnswered(r, answer)
    \/ CollectQuotes
SpecQuote == RqInit /\ [][RqNext]_vars

EoInit == EoInputs /\ OptIdle /\ PfIdle /\ RqIdle /\ GcIdle /\ EvIdle /\ DqIdle /\ GqIdle /\ AuIdle /\ PrIdle
EoNext ==
    \/ \E sample \in QuoteOutcomes : SampleQuote(sample)
    \/ \E outcome \in QuoteOutcomes : Trial(outcome)
    \/ ReturnExactOutput
    \/ CalculateFeesThrows
SpecExact == EoInit /\ [][EoNext]_vars

GcInit == GcIdle /\ OptIdle /\ PfIdle /\ RqIdle /\ EoIdle /\ EvIdle /\ DqIdle /\ GqIdle /\ AuIdle /\ PrIdle
GcNext ==
    \/ DiscoverPool
    \/ Tick
    \/ InvalidateCache
    \/ \E c \in CallIds : GetGraphStart(c)
    \/ \E c \in CallIds : FindRoutesDiscovered(c)
    \/ \E c \in CallIds : FindRoutesGetGraph(c)
    \/ \E c \in CallIds : GetAllPools(c)
    \/ \E c \in CallIds : GetGraphFinish(c)
SpecCache == GcInit /\ [][GcNext]_vars

EvInit == EvInputs /\ OptIdle /\ PfIdle /\ RqIdle /\ EoIdle /\ GcIdle /\ DqIdle /\ GqIdle /\ AuIdle /\ PrIdle
EvNext == EncodeV3Path
SpecEncode == EvInit /\ [][EvNext]_vars

DqInit == DqInputs /\ OptIdle /\ PfIdle /\ RqIdle /\ EoIdle /\ GcIdle /\ EvIdle /\ GqIdle /\ AuIdle /\ PrIdle
DqNext == IssueTierCall \/ TierCallSettled \/ ReturnSingleHopQuote
SpecDirect == DqInit /\ [][DqNext]_vars

GqInit == GqInputs /\ OptIdle /\ PfIdle /\ RqIdle /\ EoIdle /\ GcIdle /\ EvIdle /\ DqIdle /\ AuIdle /\ PrIdle
GqNext ==
    \/ \E discovered \in 0..MaxDiscovered : GqFindRoutes(discovered)
    \/ \E routeQuotes \in SeqsUpTo(Quotes, MaxDiscovered) : GqGetQuotesForRoutes(routeQuotes)
    \/ \E dexQuotes \in SeqsUpTo(Quotes, MaxVenueQuotes) : GqFetchAllQuotes(dexQuotes)
    \/ GqReturn
    \/ GqCalculateFeesThrows
SpecGetQuote == GqInit /\ [][GqNext]_vars

AuInit == AuIdle /\ OptIdle /\ PfIdle /\ RqIdle /\ EoIdle /\ GcIdle /\ EvIdle /\ DqIdle /\ GqIdle /\ PrIdle
AuNext ==
    \/ GetNonceFindOne
    \/ GetNonceSave
    \/ \E v \in VerifyIds, format \in MessageFormats, nonce \in 1..MaxNonces,
          check \in SignatureChecks : VerifyMessage(v, format, nonce, check)
    \/ \E v \in VerifyIds : VerifyFindOne(v)
    \/ \E v \in VerifyIds : VerifySave(v)
SpecAuth == AuInit /\ [][AuNext]_vars

PrInit == PrIdle /\ OptIdle /\ PfIdle /\ RqIdle /\ EoIdle /\ GcIdle /\ EvIdle /\ DqIdle /\ GqIdle /\ AuIdle
PrNext ==
    \/ PriceTick
    \/ \E p \in PriceCallIds, chainId \in ChainIds : GetNativeTokenPrice(p, chainId)
    \/ \E p \in PriceCallIds : ReadContractAnswers(p)
    \/ \E p \in PriceCallIds : ReadContractFails(p)
SpecPrice == PrInit /\ [][PrNext]_vars

(***************************************************************************)
(* Properties of the split optimizers                                      *)
(***************************************************************************)
OptDone == optPc \in {"route", "venue"}

\* the greatest amountOut among the input quotes
BestOut == CHOOSE m \in {optQuotes[i].out : i \in DOMAIN optQuotes} :
               \A i \in DOMAIN optQuotes : optQuotes[i].out <= m

\* the output of the computed split: each leg's amountOut scaled by its percentage, rounded down
ValidSplitOutput ==
    SumSeq([i \in 1..Len(optValid) |-> (optValid[i].quote.out * optValid[i].pct) \div 10000])

\* C1: when at least two legs survive the minimum-percentage filter, the plan an
\* optimizer returns is a split plan if and only if the split output is strictly
\* greater than 1.001 times the best single quote's output; otherwise it is the
\* single-route plan: the best quote at 100%.
C1_SplitIffAboveThreshold ==
    (OptDone /\ Len(optValid) >= 2) =>
        /\ optPlan.kind = "plan"
        /\ optPlan.isSplit <=> (ValidSplitOutput * 1000 > BestOut * 1001)
        /\ ~optPlan.isSplit =>
              /\ Len(optPlan.legs) = 1
              /\ optPlan.legs[1].pct = 10000
              /\ optPlan.legs[1].quote.out = BestOut
              /\ optPlan.totalOutput = BestOut

\* two and three surviving legs, for both optimizers, with the single plan returned
C1_Witness ==
    /\ OptDone
    /\ Len(optValid) = 3
    /\ optValid[3].quote.out < BestOut
    /\ ~optPlan.isSplit
    /\ ValidSplitOutput < BestOut

\* the minimum per-leg percentage of the optimizer that ran
MinPctOf(pc) == IF pc = "route" THEN 5 ELSE 1

\* the sum of the (at most three) greatest outputs of the input quotes
TopOutTotal ==
    LET sorted == SortDesc(optQuotes)
    IN SumSeq([i \in 1..Min(3, Len(sorted)) |-> sorted[i].out])

\* C2: the legs of every split an optimizer computes (the only legs a plan with
\* isSplit = true carries) have percentages that sum to 100 within 0.01 once the
\* residual is added to the first leg, are at most 3, each have a percentage of at
\* least the minimum (5 for routes, 1 for venues), and none is a quote whose raw
\* proportional percentage is below that minimum.
C2_SplitLegsWellFormed ==
    /\ (OptDone /\ Len(optValid) >= 2) =>
          /\ SumSeq([i \in 1..Len(optValid) |-> optValid[i].pct]) \in 9999..10001
          /\ Len(optValid) <= 3
          /\ \A i \in 1..Len(optValid) :
                /\ optValid[i].pct >= MinPctOf(optPc) * 100
                /\ optValid[i].quote.out * 100 >= MinPctOf(optPc) * TopOutTotal
    /\ (OptDone /\ optPlan.isSplit) => (Len(optValid) >= 2 /\ optPlan.legs = optValid)

\* a route split of three legs out of four quotes whose first leg took the residual,
\* and a split of two legs from which a quote below the minimum was dropped
C2_Witness ==
    /\ OptDone
    /\ \/ /\ Len(optQuotes) = 4
          /\ Len(optValid) = 3
          /\ optValid[1].pct = 3334
          /\ optValid[2].pct = 3333
       \/ /\ optPc = "route"
          /\ Len(optQuotes) = 3
          /\ Len(optValid) = 2
          /\ \A i \in 1..3 : optQuotes[i].out > 0
          /\ \E i \in 1..3 : optQuotes[i].out = 2

\* the earliest input quote with the greatest amountOut
FirstBest ==
    optQuotes[CHOOSE i \in DOMAIN optQuotes :
                 /\ optQuotes[i].out = BestOut
                 /\ \A j \in 1..(i - 1) : optQuotes[j].out < BestOut]

\* C13: a single-route plan (isSplit = false) returned by either optimizer has one
\* leg at 100%, that leg is the earliest input quote with the greatest amountOut,
\* and the plan's total output, gas and price impact are that quote's.
C13_SinglePlanIsFirstBest ==
    (OptDone /\ optPlan.kind = "plan" /\ ~optPlan.isSplit) =>
        /\ Len(optPlan.legs) = 1
        /\ optPlan.legs[1].pct = HUNDRED
        /\ optPlan.legs[1].quote = FirstBest
        /\ optPlan.totalOutput = FirstBest.out
        /\ optPlan.totalGas = FirstBest.gas
        /\ optPlan.avgPriceImpact = FirstBest.priceImpact * HUNDRED

\* a single plan out of three quotes above the small-trade amount, where the best
\* output is quoted twice, by different venues, and neither is the first quote
C13_Witness ==
    /\ OptDone
    /\ optPlan.kind = "plan"
    /\ ~optPlan.isSplit
    /\ optAmountIn >= SMALL_TRADE
    /\ Len(optQuotes) = 3
    /\ optQuotes[1].out < optQuotes[2].out
    /\ optQuotes[2].out = optQuotes[3].out
    /\ optQuotes[2].gas # optQuotes[3].gas
    /\ optPlan.legs[1].quote = optQuotes[2]

NullPlanWitness ==
    /\ optPc = "route"
    /\ optQuotes = <<>>
    /\ optPlan = NullPlan

\* what each optimizer computes for the quotes and the amount of the request
VenueSplit == findOptimalRoute(optQuotes, optAmountIn)[1]
VenuePlan == findOptimalRoute(optQuotes, optAmountIn)[2]
RouteSplit == optimizeRouteSplit(optQuotes, optAmountIn)[1]
RoutePlan == optimizeRouteSplit(optQuotes, optAmountIn)[2]

\* the plan the per-route optimizer gives for a list of route quotes
RoutePlanOf(routeQuotes, amountInNum) == optimizeRouteSplit(routeQuotes, amountInNum)[2]

PfDone == pfPc \in {"dfs", "opt"}

\* no token occurs twice in the path
NoRepeat(path) == \A i, j \in DOMAIN path : i # j => path[i] # path[j]

\* C3: no token occurs twice in the path of a route that findRoutes or
\* findRoutesOptimized returns for a pair of different tokens: neither an
\* intermediate token nor tokenIn is visited again.
C3_NoTokenTwice ==
    (PfDone /\ ToLower(pfQuery.tokenIn) # ToLower(pfQuery.tokenOut)) =>
        \A i \in DOMAIN pfRoutes : NoRepeat(pfRoutes[i].path)

\* C4: every returned route has one more token than hops, starts at tokenIn and
\* ends at tokenOut, chains its hops through the tokens of its path, and counts
\* its hops in totalHops, between 1 and MAX_HOPS.
C4_RouteShape ==
    PfDone =>
        \A n \in DOMAIN pfRoutes :
            LET r == pfRoutes[n]
                last == Len(r.hops)
            IN /\ Len(r.path) = Len(r.hops) + 1
               /\ r.totalHops = Len(r.hops)
               /\ r.totalHops >= 1
               /\ r.totalHops <= 3
               /\ r.path[1] = r.tokenIn
               /\ r.path[1] = ToLower(pfQuery.tokenIn)
               /\ r.path[Len(r.path)] = r.tokenOut
               /\ r.path[Len(r.path)] = ToLower(pfQuery.tokenOut)
               /\ r.hops[1].tokenIn = r.path[1]
               /\ r.hops[last].tokenOut = r.path[last + 1]
               /\ \A i \in 1..(last - 1) :
                     /\ r.hops[i].tokenOut = r.hops[i + 1].tokenIn
                     /\ r.hops[i].tokenOut = r.path[i + 1]

\* both searches return a three-hop route, asked with a mixed-case address
C4_Witness ==
    /\ PfDone
    /\ pfQuery.tokenIn = "A"
    /\ \E n \in DOMAIN pfRoutes : pfRoutes[n].totalHops = 3 /\ NoRepeat(pfRoutes[n].path)
    /\ \E n \in DOMAIN pfRoutes : pfRoutes[n].totalHops = 1

\* C5: the graph built from a pool snapshot has exactly two directed edges per
\* pool; the reverse of every edge (same pool, tokens exchanged) is an edge too;
\* every edge is stored under the key equal to its tokenIn, which is lowercase.
C5_GraphEdges ==
    PfDone =>
        LET adj == pfGraph.adjacencyList
        IN /\ 2 * Len(dbPools) =
                Cardinality(UNION {{<<k, i>> : i \in DOMAIN adj[k]} : k \in DOMAIN adj})
           /\ \A i \in DOMAIN dbPools : dbPools[i].token0 # dbPools[i].token1
           /\ \A k \in DOMAIN adj : \A i \in DOMAIN adj[k] :
                 LET e == adj[k][i]
                 IN /\ e.tokenIn = k
                    /\ ToLower(k) = k
                    /\ e.tokenOut \in DOMAIN adj
                    /\ \E j \in DOMAIN adj[e.tokenOut] :
                          LET back == adj[e.tokenOut][j]
                          IN /\ back.pool = e.pool
                             /\ back.tokenIn = e.tokenOut
                             /\ back.tokenOut = e.tokenIn

\* a graph of four pools, two of them between the same pair of tokens
C5_Witness ==
    /\ PfDone
    /\ Len(dbPools) = 4
    /\ "b" \in DOMAIN pfGraph.adjacencyList
    /\ Len(pfGraph.adjacencyList["b"]) >= 3
    /\ \E i, j \in DOMAIN pfGraph.adjacencyList["b"] :
          /\ i # j
          /\ pfGraph.adjacencyList["b"][i].tokenOut = pfGraph.adjacencyList["b"][j].tokenOut

(***************************************************************************)
(* Route quoting                                                           *)
(***************************************************************************)
RqDone == rqPc = "returned"

\* the hops of route r that answered with a quote
SucceededHops(r) == Len(SelectSeq(rqState[r].log, LAMBDA e : e.ev = "ret"))
FailedHops(r) == Len(SelectSeq(rqState[r].log, LAMBDA e : e.ev = "fail"))
AttemptedHops(r) == Len(SelectSeq(rqState[r].log, LAMBDA e : e.ev = "call"))
AllHopsSucceeded(r) == SucceededHops(r) = Len(rqRoutes[r])

\* C7: getQuotesForRoutes returns (it has no raising path), and what it returns holds
\* exactly one quote for every route all of whose hops succeeded and none for any
\* other route, whatever happened to the sibling routes.
C7_OneQuotePerSuccessfulRoute ==
    /\ rqPc \in {"idle", "start", "awaiting", "returned"}
    /\ RqDone =>
        /\ \A r \in DOMAIN rqRoutes :
              Cardinality({i \in DOMAIN rqResult : rqResult[i].route = r})
                  = IF AllHopsSucceeded(r) THEN 1 ELSE 0
        /\ \A i \in DOMAIN rqResult : rqResult[i].route \in DOMAIN rqRoutes

\* two routes, one of them failed at a hop, the other one quoted
C7_Witness ==
    /\ RqDone
    /\ Len(rqRoutes) = 2
    /\ Len(rqResult) = 1
    /\ \E r \in DOMAIN rqRoutes : FailedHops(r) = 1

\* C8 as stated: a route comes back without a quote only if every hop that was tried
\* failed, i.e. none of its hops answered with a quote.
C8_NoQuoteOnlyIfEveryHopFailed ==
    \A r \in DOMAIN rqState :
        (rqState[r].pc = "done" /\ ~rqState[r].quote.ok) => SucceededHops(r) = 0

\* C8: a route comes back without a quote exactly when one of its hops failed; the
\* first failed hop ends the route: it is the last hop tried, every hop before it
\* answered, and the hops after it are never asked.
C8_FirstFailedHopEndsRoute ==
    \A r \in DOMAIN rqState :
        LET log == rqState[r].log
        IN /\ \A i \in DOMAIN log : log[i].ev = "fail" =>
                  /\ i = Len(log)
                  /\ rqState[r].pc = "done"
                  /\ AttemptedHops(r) = log[i].hop
                  /\ SucceededHops(r) = log[i].hop - 1
           /\ rqState[r].pc = "done" => (~rqState[r].quote.ok <=> FailedHops(r) = 1)

\* a three-hop route whose first hop answered and whose second hop failed
C8_Witness ==
    \E r \in DOMAIN rqState :
        /\ rqState[r].pc = "done"
        /\ ~rqState[r].quote.ok
        /\ Len(rqRoutes[r]) = 3
        /\ SucceededHops(r) = 1
        /\ AttemptedHops(r) = 2

\* C9: the hops of a route are asked in path order, one at a time: hop 1 with the
\* amountIn of the request, hop i+1 only once hop i has answered and with the
\* amountOut hop i answered; a quoted route has one hopsData entry per hop and the
\* amountOut of its last hop.
C9_HopsChained ==
    \A r \in DOMAIN rqState :
        LET st == rqState[r]
            log == st.log
        IN /\ \A i \in DOMAIN log :
                IF i % 2 = 1
                THEN /\ log[i].ev = "call"
                     /\ log[i].hop = (i + 1) \div 2
                     /\ IF i = 1 THEN log[i].amount = rqAmountIn
                        ELSE log[i - 1].ev = "ret" /\ log[i].amount = log[i - 1].amount
                ELSE /\ log[i].ev \in {"ret", "fail"}
                     /\ log[i].hop = i \div 2
           /\ (st.pc = "done" /\ st.quote.ok) =>
                /\ Len(st.hopsData) = Len(rqRoutes[r])
                /\ st.quote.amountOut = st.hopsData[Len(st.hopsData)].amountOut
                /\ st.hopsData[1].amountIn = rqAmountIn
                /\ \A k \in 1..(Len(st.hopsData) - 1) :
                      st.hopsData[k + 1].amountIn = st.hopsData[k].amountOut

\* a quoted three-hop route whose hops answered with different amounts
C9_Witness ==
    \E r \in DOMAIN rqState :
        /\ rqState[r].pc = "done"
        /\ rqState[r].quote.ok
        /\ Len(rqState[r].hopsData) = 3
        /\ rqState[r].hopsData[1].amountOut # rqState[r].hopsData[2].amountOut
        /\ rqState[r].hopsData[2].amountIn # rqAmountIn


(***************************************************************************)
(* Exact-output search                                                     *)
(***************************************************************************)
EoDone == eoPc = "done"

\* the trials that gave a plan
PlanTrials == {i \in DOMAIN eoTrials : eoTrials[i].outcome = "plan"}

\* the first bracket holds an input whose output reaches the target
TargetInBracket ==
    /\ QuoteOutput(eoFn, eoEstimatedInput \div 2) <= eoTarget
    /\ QuoteOutput(eoFn, eoEstimatedInput * 2) >= eoTarget

\* C6 as stated: when the venues quoted the sample and every trial, and the first
\* bracket holds the target, the output the venues quote for the returned
\* fromAmount is within 0.1% of the target.
C6_RequoteWithinTolerance ==
    (/\ EoDone
     /\ TargetInBracket
     /\ eoEstimatedInput * SampleRate(eoFn) = eoTarget * 1000
     /\ PlanTrials = DOMAIN eoTrials)
        => WithinTolerance(QuoteOutput(eoFn, eoResult.input), eoTarget)

\* What the search does return: rounded to six decimals, the input of the trial whose
\* output was closest to the target among the trials that gave a plan; that output
\* is within 0.1% of the target exactly when some trial's output was, and a search
\* that no trial brought within 0.1% has run all 5 iterations.
ClosestTrialReturned ==
    EoDone =>
        /\ eoBest.has
        /\ eoResult.input = ToFixed6(eoBest.input)
        /\ \E i \in PlanTrials :
              eoTrials[i].mid = eoBest.input /\ eoTrials[i].output = eoBest.output
        /\ eoBest.output = QuoteOutput(eoFn, eoBest.input)
        /\ \A i \in PlanTrials :
              Abs(eoBest.output - eoTarget) <= Abs(eoTrials[i].output - eoTarget)
        /\ WithinTolerance(eoBest.output, eoTarget)
              <=> \E i \in PlanTrials : WithinTolerance(eoTrials[i].output, eoTarget)
        /\ ~WithinTolerance(eoBest.output, eoTarget) => eoIter = MAX_ITERATIONS

\* five trials that all gave a plan, an earlier one closer to the target than the
\* last one, none within 0.1%
ClosestTrialWitness ==
    /\ EoDone
    /\ TargetInBracket
    /\ PlanTrials = 1..MAX_ITERATIONS
    /\ eoBest.input # eoTrials[MAX_ITERATIONS].mid
    /\ ~WithinTolerance(eoBest.output, eoTarget)

\* the loop of the search has been left
SearchOver == eoPc \in {"fees", "done", "failed", "feeError"}

\* C18: the exact-output search fails with 'no liquidity for the requested output'
\* if and only if none of its trials returned a plan; if at least one trial returned
\* a plan the search goes on with one (bestQuote) and the response is built from it;
\* bestQuote is never taken from a failed or an empty trial, and so never holds a
\* zero output standing for one.
C18_NoLiquidityIffNoPlanTrial ==
    /\ SearchOver => ((eoPc = "failed") <=> (PlanTrials = {}))
    /\ eoBest.has <=> PlanTrials # {}
    /\ eoBest.has =>
          \E i \in PlanTrials :
              /\ eoTrials[i].mid = eoBest.input
              /\ eoTrials[i].output = eoBest.output
              /\ eoBest.output = QuoteOutput(eoFn, eoBest.input)
    /\ eoPc = "done" => (eoResult.has /\ eoResult.input = ToFixed6(eoBest.input))
    /\ eoPc \in {"failed", "feeError"} => ~eoResult.has

\* a search whose only plan came from its last trial, after empty and failed ones
C18_Witness ==
    /\ eoPc = "done"
    /\ eoIter = MAX_ITERATIONS
    /\ PlanTrials = {MAX_ITERATIONS}
    /\ \E i \in 1..(MAX_ITERATIONS - 1) : eoTrials[i].outcome = "empty"
    /\ \E i \in 1..(MAX_ITERATIONS - 1) : eoTrials[i].outcome = "error"
    /\ eoBest.input = eoTrials[MAX_ITERATIONS].mid

\* a search whose five trials were all empty or failed
NoPlanTrialWitness ==
    /\ eoPc = "failed"
    /\ eoIter = MAX_ITERATIONS
    /\ \E i \in DOMAIN eoTrials : eoTrials[i].outcome = "empty"
    /\ \E i \in DOMAIN eoTrials : eoTrials[i].outcome = "error"

\* low and high as trial i left them
LowAfter(i) == IF i < Len(eoTrials) THEN eoTrials[i + 1].low ELSE eoLow
HighAfter(i) == IF i < Len(eoTrials) THEN eoTrials[i + 1].high ELSE eoHigh

\* the distance of trial i's output from the target
Distance(i) == Abs(eoTrials[i].output - eoTarget)

\* the earliest of the trials with a plan whose output is closest to the target
ClosestTrial ==
    CHOOSE i \in PlanTrials :
        /\ \A j \in PlanTrials : Distance(i) <= Distance(j)
        /\ \A j \in PlanTrials : Distance(j) = Distance(i) => i <= j

\* C22: after a trial at midpoint m that gave the output o, low is m when o < target
\* and high is m otherwise (the other bound stays); bestQuote is the trial whose
\* output is closest to the target among the trials that gave an output, the
\* earliest one on ties, and the response is built from it; a trial whose output
\* is within 0.1% of the target is the last trial of the search.
C22_BisectionKeepsClosestTrial ==
    /\ \A i \in PlanTrials :
          /\ eoTrials[i].output = QuoteOutput(eoFn, eoTrials[i].mid)
          /\ eoTrials[i].output < eoTarget =>
                (LowAfter(i) = eoTrials[i].mid /\ HighAfter(i) = eoTrials[i].high)
          /\ eoTrials[i].output >= eoTarget =>
                (HighAfter(i) = eoTrials[i].mid /\ LowAfter(i) = eoTrials[i].low)
          /\ WithinTolerance(eoTrials[i].output, eoTarget) =>
                (i = Len(eoTrials) /\ SearchOver)
    /\ PlanTrials # {} =>
          /\ eoBest.has
          /\ eoBest.input = eoTrials[ClosestTrial].mid
          /\ eoBest.output = eoTrials[ClosestTrial].output
    /\ EoDone => eoResult.input = ToFixed6(eoTrials[ClosestTrial].mid)

\* five trials at five different midpoints that all gave the same output, below
\* the target: the response is built from the first of them
C22_Witness ==
    /\ EoDone
    /\ PlanTrials = 1..MAX_ITERATIONS
    /\ \A i \in PlanTrials : Distance(i) = Distance(1)
    /\ \A i \in 2..MAX_ITERATIONS : eoTrials[i].mid > eoTrials[i - 1].mid
    /\ eoBest.input = eoTrials[1].mid

\* a search that a trial within 0.1% of the target ended before the fifth iteration
EarlyExitWitness ==
    /\ EoDone
    /\ Len(eoTrials) < MAX_ITERATIONS
    /\ Len(eoTrials) > 1
    /\ WithinTolerance(eoTrials[Len(eoTrials)].output, eoTarget)
    /\ eoBest.input = eoTrials[Len(eoTrials)].mid
    /\ eoTrials[Len(eoTrials)].outcome = "plan"

\* the width of the bracket before and after trial i
WidthBefore(i) == eoTrials[i].high - eoTrials[i].low
WidthAfter(i) == HighAfter(i) - LowAfter(i)

\* low <= mid <= high at every trial, with mid the midpoint; no trial widens the
\* bracket; a trial that gave a plan or threw halves its width (to the 1e-7 token the
\* amounts are counted in); a trial that gave an empty list leaves it as it was
BracketNarrows ==
    /\ eoLow <= eoHigh
    /\ \A i \in DOMAIN eoTrials :
          /\ eoTrials[i].low <= eoTrials[i].mid
          /\ eoTrials[i].mid <= eoTrials[i].high
          /\ 2 * eoTrials[i].mid <= eoTrials[i].low + eoTrials[i].high
          /\ 2 * eoTrials[i].mid + 2 > eoTrials[i].low + eoTrials[i].high
          /\ LowAfter(i) >= eoTrials[i].low
          /\ HighAfter(i) <= eoTrials[i].high
          /\ eoTrials[i].outcome \in {"plan", "error"} =>
                /\ 2 * WidthAfter(i) >= WidthBefore(i) - 1
                /\ 2 * WidthAfter(i) <= WidthBefore(i) + 1
                /\ LowAfter(i) = eoTrials[i].mid \/ HighAfter(i) = eoTrials[i].mid
          /\ eoTrials[i].outcome = "empty" =>
                (LowAfter(i) = eoTrials[i].low /\ HighAfter(i) = eoTrials[i].high)

\* C28 as stated: the bracket invariants above, and after a trial that gave an empty
\* list every remaining trial is at the same midpoint.
C28_EmptyTrialFreezesMidpoint ==
    /\ BracketNarrows
    /\ \A i \in DOMAIN eoTrials :
          eoTrials[i].outcome = "empty" =>
              \A j \in DOMAIN eoTrials : j > i => eoTrials[j].mid = eoTrials[i].mid

\* C28 (amended): throughout the search low <= mid <= high and the bracket never
\* widens; a trial that gave a plan or threw halves the bracket; a trial that gave an
\* empty list leaves low and high unchanged, so the next trial is at the same
\* midpoint, and so is every later one up to the first that gives a plan or throws.
C28_EmptyTrialRepeatsMidpoint ==
    /\ BracketNarrows
    /\ \A i \in DOMAIN eoTrials :
          eoTrials[i].outcome = "empty" =>
              \A j \in DOMAIN eoTrials :
                  (j > i /\ \A k \in i..(j - 1) : eoTrials[k].outcome = "empty")
                      => eoTrials[j].mid = eoTrials[i].mid

\* an empty trial, the same midpoint tried again with a plan, and then a trial
\* at another midpoint of a bracket half as wide
C28_Witness ==
    /\ SearchOver
    /\ Len(eoTrials) >= 3
    /\ eoTrials[1].outcome = "empty"
    /\ eoTrials[2].outcome = "plan"
    /\ eoTrials[2].mid = eoTrials[1].mid
    /\ eoTrials[3].mid # eoTrials[2].mid
    /\ WidthAfter(2) < WidthBefore(2)
    /\ \E i \in DOMAIN eoTrials : eoTrials[i].outcome = "error"

\* the bracket the search started from
InitialLow == IF eoTrials = <<>> THEN eoLow ELSE eoTrials[1].low
InitialHigh == IF eoTrials = <<>> THEN eoHigh ELSE eoTrials[1].high

\* C21: whatever the venues answer (plans, empty lists or errors, at any trial), the
\* exact-output search runs one sample quote and then at most 5 trials, and after the
\* fifth trial it has left the loop; its first bracket is [0.5 x guess, 2.0 x guess],
\* where guess is desiredOutput / sampleRate when the sample gave a quote (with a
\* rate above zero), and desiredOutput when the sample failed or gave no quote.
C21_OneSampleFiveTrialsBracket ==
    /\ (eoPc = "sample") <=> (eoSample = "none")
    /\ eoPc = "sample" => eoTrials = <<>>
    /\ eoIter = Len(eoTrials)
    /\ Len(eoTrials) <= MAX_ITERATIONS
    /\ eoPc = "search" => Len(eoTrials) < MAX_ITERATIONS
    /\ Len(eoTrials) = MAX_ITERATIONS => SearchOver
    /\ (eoSample = "plan" /\ SampleRate(eoFn) > 0) =>
          /\ eoEstimatedInput * SampleRate(eoFn) <= eoTarget * 1000
          /\ (eoEstimatedInput + 1) * SampleRate(eoFn) > eoTarget * 1000
    /\ eoSample \in {"empty", "error"} => eoEstimatedInput = eoTarget
    /\ eoSample # "none" =>
          /\ 2 * InitialLow <= eoEstimatedInput
          /\ 2 * InitialLow + 2 > eoEstimatedInput
          /\ InitialHigh = 2 * eoEstimatedInput

\* a search over a venue that quotes four fifths: the sample gave the rate, five
\* trials ran, one of them empty and one failed, and the response was returned
C21_Witness ==
    /\ eoPc = "done"
    /\ eoFn = "fourFifths"
    /\ eoSample = "plan"
    /\ eoEstimatedInput # eoTarget
    /\ Len(eoTrials) = MAX_ITERATIONS
    /\ \E i \in DOMAIN eoTrials : eoTrials[i].outcome = "empty"
    /\ \E i \in DOMAIN eoTrials : eoTrials[i].outcome = "error"

\* a sample that failed, and one that gave a quote of zero: the guess is the target
FallbackGuessWitness ==
    /\ SearchOver
    /\ \/ eoSample = "error"
       \/ eoSample = "plan" /\ SampleRate(eoFn) = 0
    /\ eoEstimatedInput = eoTarget
    /\ InitialHigh = 2 * eoTarget

(***************************************************************************)
(* Graph cache                                                             *)
(***************************************************************************)
\* C10: the first getGraph that starts after an invalidateCache returns a graph
\* whose pool snapshot was read after that invalidation, whatever getGraph calls
\* were in flight when the cache was invalidated.
C10_FreshAfterInvalidate ==
    \A c \in CallIds :
        (gcCalls[c].pc = "done" /\ gcCalls[c].first)
            => gcCalls[c].graph.readEpoch >= gcCalls[c].startEpoch


\* the calls that have their graph
GraphCalls == {c \in CallIds : gcCalls[c].pc = "done"}

\* C25: when two rebuilds of the graph overlap, the cache entry is never
\* overwritten with a graph built from an older pool snapshot than the one it
\* holds: once both getGraph calls have completed, the cached graph is built from
\* the most recently read snapshot.
C25_NewestSnapshotCached ==
    (GraphCalls = CallIds /\ gcCache.has) =>
        \A c \in CallIds : gcCache.graph.snap >= gcCalls[c].graph.snap

\* C30: under every interleaving of findRoutes and getGraph calls, the graph a
\* findRoutes call searches is built from a pool snapshot that was read after the
\* call's own discovery completed and after its own invalidation of the cache: it
\* holds every pool that was in the table when the discovery completed, and it is
\* never a graph that was cached before.
C30_SearchedGraphReadAfterDiscovery ==
    \A c \in CallIds :
        (gcCalls[c].pc = "done" /\ gcCalls[c].discovered >= 0) =>
            /\ gcCalls[c].graph.snap >= gcCalls[c].discovered
            /\ gcCalls[c].graph.readEpoch >= gcCalls[c].startEpoch
            /\ gcCalls[c].startEpoch >= 1

\* a findRoutes call whose discovery found a pool, while a getGraph that had read
\* the pools before stored its stale graph after the call's invalidation: the
\* call still searched a graph with the new pool
C30_Witness ==
    \E c, d \in CallIds :
        /\ c # d
        /\ gcCalls[c].pc = "done"
        /\ gcCalls[c].discovered = 1
        /\ gcCalls[c].graph.snap = 1
        /\ gcCalls[d].pc = "done"
        /\ gcCalls[d].discovered = -1
        /\ gcCalls[d].graph.snap = 0
        /\ gcCalls[d].graph.readEpoch < gcCalls[c].startEpoch

(***************************************************************************)
(* Sign-in nonces and the native token price                               *)
(***************************************************************************)
\* the verifySignature calls that a nonce authenticated
Authenticated(nonce) ==
    {v \in VerifyIds : auCalls[v].result = "token" /\ auCalls[v].nonce = nonce}

\* C26: a nonce issued by getNonce authenticates at most one verifySignature call:
\* of the calls with the same message and signature, later or concurrent, only one
\* gets an access token.
C26_NonceAuthenticatesOnce ==
    \A nonce \in 1..MaxNonces : Cardinality(Authenticated(nonce)) <= 1

\* C29: getNativeTokenPrice(chainId) returns 0 or a price that the feed of that
\* chainId answered within the last 60 seconds; never a price read for another chain.
C29_PriceOfRequestedChain ==
    \A p \in PriceCallIds :
        prCalls[p].pc = "done" =>
            \/ prCalls[p].price = 0
            \/ /\ HasFeed(prCalls[p].chainId)
               /\ \E t \in 0..prCalls[p].at :
                     /\ (prCalls[p].at - t) * TickMs < PRICE_CACHE_TTL
                     /\ prCalls[p].price = FeedPrice(prCalls[p].chainId, t)

(***************************************************************************)
(* Absent tokens and shortest routes                                       *)
(***************************************************************************)
\* the spellings a caller may give a token address
TokenSpellings == {"a", "A", "b", "B", "c", "C", "d", "D", "e", "x"}

\* no row of the pools table has the token on either side
NotInPools(t) ==
    \A i \in DOMAIN dbPools :
        ToLower(dbPools[i].token0) # ToLower(t) /\ ToLower(dbPools[i].token1) # ToLower(t)

\* C11: when tokenIn or tokenOut is not a token of the graph, both searches return
\* an empty sequence of routes (the searches have no raising path); for a token
\* that is not in the graph, in any letter case, getEdgesFrom returns the empty
\* sequence and hasToken returns false.
C11_AbsentTokenEmptyResult ==
    PfDone =>
        /\ (NotInPools(pfQuery.tokenIn) \/ NotInPools(pfQuery.tokenOut)) => pfRoutes = <<>>
        /\ \A t \in TokenSpellings :
              NotInPools(t) => (getEdgesFrom(pfGraph, t) = <<>> /\ ~hasToken(pfGraph, t))

\* a search from a token of the graph, given in capitals, to a token that is not in it
C11_Witness ==
    /\ PfDone
    /\ Len(dbPools) >= 2
    /\ pfQuery.tokenIn = "A"
    /\ hasToken(pfGraph, pfQuery.tokenIn)
    /\ NotInPools(pfQuery.tokenOut)
    /\ pfRoutes = <<>>

\* the tokens one pool away from a token of T, and T itself
Neighbours(T) ==
    T \cup {ToLower(dbPools[i].token1) : i \in {j \in DOMAIN dbPools : ToLower(dbPools[j].token0) \in T}}
      \cup {ToLower(dbPools[i].token0) : i \in {j \in DOMAIN dbPools : ToLower(dbPools[j].token1) \in T}}

\* the tokens that at most n pools connect to t
RECURSIVE ReachWithin(_, _)
ReachWithin(t, n) == IF n = 0 THEN {ToLower(t)} ELSE Neighbours(ReachWithin(t, n - 1))

\* the least number of pools that connect tokenIn to tokenOut, 0 when none does
MinPools(tokenIn, tokenOut) ==
    LET ns == {n \in 1..Len(dbPools) : ToLower(tokenOut) \in ReachWithin(tokenIn, n)}
    IN IF ns = {} THEN 0 ELSE CHOOSE n \in ns : \A m \in ns : n <= m

\* C12: with k the least number of pools connecting tokenIn to tokenOut, findRoutes
\* returns no route of fewer than k hops, no route at all when nothing connects
\* them within MAX_HOPS pools, and a k-hop route when k <= MAX_HOPS; on a line of
\* two pools it returns exactly the one 2-hop route through the middle token.
C12_ShortestRouteFound ==
    (PfDone /\ pfPc = "dfs" /\ ToLower(pfQuery.tokenIn) # ToLower(pfQuery.tokenOut)) =>
        LET k == MinPools(pfQuery.tokenIn, pfQuery.tokenOut)
        IN /\ \A i \in DOMAIN pfRoutes : pfRoutes[i].totalHops >= k
           /\ (k = 0 \/ k > MAX_HOPS) => pfRoutes = <<>>
           /\ (k >= 1 /\ k <= MAX_HOPS) => \E i \in DOMAIN pfRoutes : pfRoutes[i].totalHops = k
           /\ (k = 2 /\ Len(dbPools) = 2) =>
                 /\ Len(pfRoutes) = 1
                 /\ pfRoutes[1].totalHops = 2
                 /\ Len(pfRoutes[1].path) = 3
                 /\ pfRoutes[1].path[1] = ToLower(pfQuery.tokenIn)
                 /\ pfRoutes[1].path[3] = ToLower(pfQuery.tokenOut)

\* the line a - b - c of two pools, searched from a to c
C12_Witness ==
    /\ PfDone
    /\ pfPc = "dfs"
    /\ Len(dbPools) = 2
    /\ MinPools(pfQuery.tokenIn, pfQuery.tokenOut) = 2
    /\ Len(pfRoutes) = 1
    /\ pfRoutes[1].path = <<"a", "b", "c">>

\* four pools in a line: the tokens are connected, but by more than MAX_HOPS pools
FarApartWitness ==
    /\ PfDone
    /\ pfPc = "dfs"
    /\ MinPools(pfQuery.tokenIn, pfQuery.tokenOut) = 4
    /\ pfRoutes = <<>>

(***************************************************************************)
(* The routes a search returns                                             *)
(***************************************************************************)
\* the routes the depth-bounded enumeration pushes for the query, in its order
Enumerated ==
    IF ~hasToken(pfGraph, ToLower(pfQuery.tokenIn)) \/ ~hasToken(pfGraph, ToLower(pfQuery.tokenOut))
    THEN <<>>
    ELSE findRoutesRecursive(pfGraph, ToLower(pfQuery.tokenIn), ToLower(pfQuery.tokenOut),
                             <<>>, <<ToLower(pfQuery.tokenIn)>>, {})

EnumeratedSet == {Enumerated[i] : i \in DOMAIN Enumerated}
ReturnedSet == {pfRoutes[i] : i \in DOMAIN pfRoutes}

\* C23: findRoutes returns at most MAX_ROUTES (10) routes, in non-decreasing
\* order of estimatedGas: all the enumerated routes when there are at most 10, and
\* otherwise 10 of them such that every enumerated route that is not returned has an
\* estimatedGas greater than or equal to that of every returned route.
C23_TopRoutesByGas ==
    pfPc = "dfs" =>
        /\ Len(pfRoutes) <= MAX_ROUTES
        /\ Len(pfRoutes) = Min(MAX_ROUTES, Len(Enumerated))
        /\ \A i \in 1..(Len(pfRoutes) - 1) : pfRoutes[i].estimatedGas <= pfRoutes[i + 1].estimatedGas
        /\ Cardinality(ReturnedSet) = Len(pfRoutes)
        /\ ReturnedSet \subseteq EnumeratedSet
        /\ \A r \in EnumeratedSet \ ReturnedSet :
              \A q \in ReturnedSet : r.estimatedGas >= q.estimatedGas

\* a search that enumerated more than 10 routes, some left out with the same
\* estimatedGas as the last returned one and some with more, whose first enumerated
\* route is not the cheapest
C23_Witness ==
    /\ pfPc = "dfs"
    /\ Len(Enumerated) > MAX_ROUTES
    /\ Len(pfRoutes) = MAX_ROUTES
    /\ pfRoutes[1].estimatedGas < pfRoutes[MAX_ROUTES].estimatedGas
    /\ Enumerated[1].estimatedGas > pfRoutes[1].estimatedGas
    /\ \E r \in EnumeratedSet \ ReturnedSet : r.estimatedGas = pfRoutes[MAX_ROUTES].estimatedGas
    /\ \E r \in EnumeratedSet \ ReturnedSet : r.estimatedGas > pfRoutes[MAX_ROUTES].estimatedGas

\* C27: on every graph, findRoutesOptimized returns at least one route whenever the
\* depth-bounded enumeration of findRoutes finds at least one for the same graph,
\* tokens and MAX_HOPS, and every route it returns is one that enumeration produces.
C27_OptimizedWithinEnumeration ==
    pfPc = "opt" =>
        /\ Enumerated # <<>> => pfRoutes # <<>>
        /\ ReturnedSet \subseteq EnumeratedSet

\* every route findRoutesOptimized returns is one the enumeration produces
OptimizedRoutesEnumerated == pfPc = "opt" => ReturnedSet \subseteq EnumeratedSet

(***************************************************************************)
(* Properties of the V3 path encoding                                      *)
(***************************************************************************)
EvDone == evPc \in {"encoded", "invalid"}

\* the value of a hex digit, in either case
HexDigitVal(c) == CHOOSE v \in 0..15 : HexDigits[v + 1] = ToLowerChar(c)

\* the number a string of hex digits denotes
RECURSIVE HexVal(_)
HexVal(str) ==
    IF str = <<>> THEN 0
    ELSE 16 * HexVal(SubSeq(str, 1, Len(str) - 1)) + HexDigitVal(str[Len(str)])

\* the 20 bytes of an address, as 40 half-bytes
AddressBytes(hexDigits) == [i \in 1..Len(hexDigits) |-> HexDigitVal(hexDigits[i])]

\* the packed format after "0x": token i (from 0) is the 40 hex digits at 46 * i,
\* fee i (from 1) the 6 hex digits before token i
DecodedToken(encoded, i) == SubSeq(encoded, 3 + 46 * i, 42 + 46 * i)
DecodedFee(encoded, i) == HexVal(SubSeq(encoded, 46 * i - 3, 46 * i + 2))

\* C14: for n + 1 twenty-byte tokens and n fees below 2^24, encodeV3Path yields
\* "0x", 20 bytes of token, then alternately 3 bytes of fee and 20 bytes of token,
\* and decoding at these offsets recovers the bytes of every token and the value of
\* every fee; a call with tokens.length # fees.length + 1 is rejected as an invalid
\* path and yields no encoding.
C14_PackedPathRoundTrip ==
    EvDone =>
        /\ (evPc = "invalid") <=> (Len(evTokens) # Len(evFees) + 1)
        /\ evPc = "invalid" => evEncoded = <<>>
        /\ (evPc = "encoded" /\ \A i \in DOMAIN evFees : evFees[i] < UINT24_LIMIT) =>
              /\ Len(evEncoded) = 2 + 40 * Len(evTokens) + 6 * Len(evFees)
              /\ SubSeq(evEncoded, 1, 2) = <<"0", "x">>
              /\ \A i \in 0..(Len(evTokens) - 1) :
                    AddressBytes(DecodedToken(evEncoded, i)) = AddressBytes(Slice(evTokens[i + 1], 2))
              /\ \A i \in 1..Len(evFees) : DecodedFee(evEncoded, i) = evFees[i]

\* a path of three different tokens and two fees, one of them a tier that needs
\* padding and the other the greatest 24-bit value
C14_Witness ==
    /\ evPc = "encoded"
    /\ Len(evTokens) = 3
    /\ evTokens[1] # evTokens[2]
    /\ evTokens[2] # evTokens[3]
    /\ evFees = <<500, UINT24_LIMIT - 1>>
    /\ DecodedFee(evEncoded, 1) = 500

\* a call whose lists do not match in length
InvalidPathWitness ==
    /\ evPc = "invalid"
    /\ Len(evTokens) = 2
    /\ Len(evFees) = 2

(***************************************************************************)
(* Properties of the direct V3 single-hop quote                            *)
(***************************************************************************)
\* the tiers (as positions in V3_FEE_TIERS) whose call succeeded
SucceededTiers == {i \in DOMAIN dqAnswers : dqAnswers[i].ok}

\* the greatest amountOut a succeeded tier answered
BestTierOut ==
    CHOOSE m \in {dqAnswers[i].out : i \in SucceededTiers} :
        \A i \in SucceededTiers : dqAnswers[i].out <= m

\* the position of a fee in V3_FEE_TIERS
TierIndex(fee) == CHOOSE i \in DOMAIN V3_FEE_TIERS : V3_FEE_TIERS[i] = fee

FirstBestTier ==
    CHOOSE i \in SucceededTiers :
        /\ dqAnswers[i].out = BestTierOut
        /\ \A j \in SucceededTiers : dqAnswers[j].out = BestTierOut => i <= j

C20_AllTiersIssuedBeforeAwait ==
    dqPc = "awaiting" => dqIssued = V3_FEE_TIERS

(***************************************************************************)
(* Properties of the exact-input getQuote                                  *)
(***************************************************************************)
GqOver == gqPc \in {"returned", "failed"}

\* C19: the direct-venue fallback (fetchAllQuotes) is consulted only when the graph
\* pipeline yielded nothing: no discovered route, or no route with a quote; when at
\* least one route has a quote the plan is built from the route quotes; NoLiquidity
\* is raised if and only if neither the graph pipeline nor the fallback produced a
\* quote.
C19_FallbackOnlyWhenGraphEmpty ==
    /\ gqFallback => (gqDiscovered = 0 \/ gqRouteQuotes = <<>>)
    /\ (gqDiscovered >= 0 /\ Len(gqRouteQuotes) > 0) =>
          /\ ~gqFallback
          /\ gqPlan.source = "routes"
          /\ gqPlan.plan = RoutePlanOf(gqRouteQuotes, gqAmountIn)
          /\ gqDexQuotes = <<>>
    /\ GqOver =>
          ((gqResult = "NoLiquidity") <=> (gqRouteQuotes = <<>> /\ gqDexQuotes = <<>>))
    /\ gqResult = "response" =>
          /\ gqPlan.plan.kind = "plan"
          /\ gqPlan.source = (IF gqRouteQuotes # <<>> THEN "routes" ELSE "venues")

\* two routes were discovered, neither could be quoted, and the response was built
\* from the quotes of the direct venues
C19_Witness ==
    /\ gqPc = "returned"
    /\ gqDiscovered = 2
    /\ gqRouteQuotes = <<>>
    /\ gqFallback
    /\ Len(gqDexQuotes) = 2
    /\ gqPlan.source = "venues"
    /\ gqResult = "response"

\* routes were discovered, none could be quoted, and no venue quoted either
NoLiquidityWitness ==
    /\ gqPc = "failed"
    /\ gqDiscovered > 0
    /\ gqFallback
    /\ gqResult = "NoLiquidity"

\* a response built from route quotes without the fallback
RoutePlanWitness ==
    /\ gqPc = "returned"
    /\ Len(gqRouteQuotes) = 2
    /\ ~gqFallback
    /\ gqPlan.source = "routes"

====
